---- MODULE Spec2Model ----
(***************************************************************************)
(* Model of smart-suggestion's session proxy (cmd/main.go) and its log     *)
(* rotator (pkg/logrotate.go).                                             *)
(*                                                                         *)
(* Spec      : several proxy processes started for the SAME session id,    *)
(*             each running runProxy step by step: createProcessLock,      *)
(*             start-up, relay (coarse), deferred shutdown.                *)
(* SpecSeq   : the same processes and steps, with the calls of             *)
(*             createProcessLock not overlapping in time.                  *)
(* SpecRelay : one proxy from the moment its two relay goroutines start:   *)
(*             the shell, the pty-to-output relay, the input relay and     *)
(*             the main goroutine with its deferred calls, byte by byte.   *)
(* SpecRot   : one log file with its backups in its directory, the         *)
(*             goroutines that append to it (writeToLogFile for the debug  *)
(*             log, the relay's open handle for a session log) and a       *)
(*             rotate-logs command run against it, step by step.           *)
(* SpecMutex : the goroutines of one process that call writeToLogFile,     *)
(*             without the rotate-logs command.                            *)
(* SpecRelayFair : SpecRelay with every goroutine scheduled fairly.        *)
(* SpecId    : resolutions of the session id by getCurrentSessionID and    *)
(*             by runProxy, for every override and terminal device.        *)
(* SpecPaths : the session log path and lock path made for two ids.        *)
(* SpecSweep : cleanupOldSessionLogs run on a small log directory.         *)
(* SpecSolo  : SpecRot's log file with the calls of the rotator and the    *)
(*             writes made one after another.                              *)
(* SpecPrune : cleanupOldBackups run on a small log directory.             *)
(* SpecChild : a proxy resolving its session id and spawning its shell, and *)
(*             a context-gathering call made inside that shell.            *)
(* SpecTail  : readLatestProxyContent called on a small proxy log, and the *)
(*             context gatherer going on from its result.                  *)
(* SpecSize  : ParseSizeString called on a short size string.              *)
(* SpecResize: one proxy's window-size handler: the real terminal's        *)
(*             resizes, SIGWINCH on its way to the one-slot channel, the   *)
(*             handler goroutine copying the size onto the pty.            *)
(***************************************************************************)
EXTENDS Integers, Sequences, FiniteSets, TLC

\* ------------------------------------------------------------------ bounds
NumProcs == 2

\* bytes the shell writes to the pseudo-terminal in one session
MaxBytes == 3

\* most bytes one read of the pseudo-terminal returns
MaxChunk == 2

\* goroutines of one process that call writeToLogFile
NumWriters == 2

\* appends to the log file in one run
MaxWrites == 2

\* last instant of the clock
MaxTime == 2

\* LogRotateConfig as set up by init() of cmd/main.go, scaled down:
\* MaxSize in units of one debug-log entry, MaxBackups in files,
\* MaxAge in days
MaxSize == 1

\* size of one writeToLogFile entry, the unit of MaxSize
EntryLen == 1

MaxBackups == 1

MaxAge == 1

Compress == TRUE

\* clock ticks ("seconds", the resolution of the backup timestamp) per day
SecondsPerDay == 1

Procs == 1..NumProcs

\* os.Getpid() of process p: distinct, several decimal digits
Pid(p) == 98 + p

\* ------------------------------------------------------------------ state
VARIABLES
    pc,          \* pc[p]: position of process p in runProxy / createProcessLock
    envMarker,   \* envMarker[p]: SMART_SUGGESTION_PROXY_ACTIVE in p's environment: 0 = empty,
                 \* else the pid of the proxy that set it
    lockIno,     \* inode the session lock path names: 0 = no such file, i = file created by process i
    lockData,    \* lockData[i]: content of the lock file inode created by process i
    lockSynced,  \* lockSynced[i]: inode i was fsync'ed after the last write
    flockBy,     \* flockBy[i]: process holding the flock on inode i, 0 = unlocked
    probePid,    \* probePid[p]: pid parsed by isProcessRunning from the lock file
    creates,     \* creates[p]: O_EXCL open attempts of p's createProcessLock call (0 outside it)
    shell,       \* shell[p]: "none" | "running" | "gone"  (child shell on the pty)
    termRaw,     \* termRaw[p]: p has put the real terminal into raw mode and not restored it
    logOpen,     \* logOpen[p]: inode of the session log p holds open, 0 = none
    slogIno,     \* inode the session log path names: 0 = no such file,
                 \* i = file created by process i, PrevIno = left by an earlier session
    slogOld,     \* the file at the session log path has an mtime more than 24h ago
    exitCode,    \* exitCode[p]: -1 while running, else the process exit status
    sweepFailed, \* sweepFailed[p]: cleanupOldSessionLogs returned an error and p is starting its shell
    \* ---- one proxy's relay (SpecRelay); byte number k of the shell's output is k
    shellUp,     \* the child shell is running
    ptyWritten,  \* number of bytes the shell has written to the pseudo-terminal
    ptyRead,     \* number of those bytes the output relay has read from ptmx
    buf,         \* io.Copy's buffer: the chunk read and not yet written out
    stdoutData,  \* bytes written to os.Stdout
    slogData,    \* content of the session log file
    outPc,       \* output relay goroutine: "read" | "w1" | "w2" | "send" | "parked" | "end"
    inPc,        \* input relay goroutine: "copy" | "end"
    mainPc,      \* main goroutine: "off" | "select" | "d_closelog" | "d_closepty" | "d_unlock" | "exited" | "panic"
    doneClosed,  \* close(done) has happened
    ptmxOpen,    \* ptmx has not been closed
    logFileOpen, \* logFile has not been closed
    \* ---- one log file, its directory and its rotations (SpecRot)
    logKind,     \* "debug": written through writeToLogFile; "session": written through the relay's handle
    now,         \* the clock
    dir,         \* dir[name]: inode of the directory entry, 0 = no such entry
    ino,         \* ino[i]: [data, gz, mtime] of inode i
    mutex,       \* logRotator.mutex of the writers' process: 0 = free, else the holder
    rpc,         \* rpc[t]: position of thread t (0 = the rotate-logs command)
    bakTs,       \* bakTs[t]: timestamp rotateFile of thread t put in the backup name
    wfd,         \* wfd[w]: inode writer w has open, 0 = none
    heldFd,      \* inode the relay's logFile handle refers to, 0 = none
    nwrites,     \* appends made so far
    checked,     \* CheckAndRotate has been called on the log path
    \* ---- session identity, session paths, sweep of old session logs
    idCall,      \* who resolves a session id, and with which override and terminal
    idOut,       \* what the resolutions gave, in order
    pathIn,      \* the base log path and the session ids paths were made for
    pathOut,     \* the log path and the lock path made for each of those ids
    sweepBase,   \* the base log path cleanupOldSessionLogs (cleanupOldBackups) is called with
    sdir0,       \* the log directory before the sweep: name -> entry
    sdir,        \* the log directory
    sweepResult, \* "none" | "ok" | "err": what cleanupOldSessionLogs (cleanupOldBackups) returned
    sweepErrs,   \* os.Stat or os.Remove failed for an entry the sweep was to remove
    \* ---- one proxy's window-size handler (SpecResize)
    termSize,    \* rows/columns of the real terminal (one of NumSizes geometries)
    ptySize,     \* rows/columns of the pseudo-terminal, 0 = never set
    sigPending,  \* a SIGWINCH has reached the process and not yet the channel
    chLen,       \* number of values in the channel ch
    dropped,     \* a SIGWINCH found ch full and was discarded
    hPc,         \* handler goroutine: "off" | "recv" | "get" | "set" | "end"
    hBuf,        \* the size pty.InheritSize has read and not yet set, 0 = none
    hErr,        \* the last pty.InheritSize returned an error
    rMainPc,     \* main goroutine: "off" | "notify" | "go" | "initial" | "parked" | "run" | "stopped"
    \* ---- the context gatherer's read of a proxy log, the size parser
    logFile,     \* the proxy log readLatestProxyContent is given: [exists, data]
    tailOut,     \* what readLatestProxyContent returned: [called, err, text]
    ctxOut,      \* what buildContextInfo returned: [called, err, hasBuffer]
    sizeIn,      \* the string ParseSizeString is given
    sizeOut      \* what ParseSizeString returned: [called, err, n]

proxyVars == <<pc, envMarker, lockIno, lockData, lockSynced, flockBy, probePid,
               creates, shell, termRaw, logOpen, slogIno, slogOld, exitCode,
               sweepFailed>>

relayVars == <<shellUp, ptyWritten, ptyRead, buf, stdoutData, slogData, outPc,
               inPc, mainPc, doneClosed, ptmxOpen, logFileOpen>>

rotVars == <<logKind, now, dir, ino, mutex, rpc, bakTs, wfd, heldFd, nwrites, checked>>

idVars == <<idCall, idOut>>

pathVars == <<pathIn, pathOut>>

sweepVars == <<sweepBase, sdir0, sdir, sweepResult, sweepErrs>>

sessVars == <<idVars, pathVars, sweepVars>>

resizeVars == <<termSize, ptySize, sigPending, chLen, dropped, hPc, hBuf,
                hErr, rMainPc>>

tailVars == <<logFile, tailOut, ctxOut>>

sizeVars == <<sizeIn, sizeOut>>

fnVars == <<tailVars, sizeVars>>

vars == <<proxyVars, relayVars, rotVars, sessVars, resizeVars, fnVars>>

\* what the steps of one part of the model leave alone
nonProxyVars == <<relayVars, rotVars, sessVars, resizeVars, fnVars>>

nonRelayVars == <<proxyVars, rotVars, sessVars, resizeVars, fnVars>>

nonRotVars == <<proxyVars, relayVars, sessVars, resizeVars, fnVars>>

nonSessVars == <<proxyVars, relayVars, rotVars, resizeVars, fnVars>>

nonResizeVars == <<proxyVars, relayVars, rotVars, sessVars, fnVars>>

nonFnVars == <<proxyVars, relayVars, rotVars, sessVars, resizeVars>>

\* the rotate-logs command and the writer goroutines
Cmd == 0

Writers == 1..NumWriters

Threads == {Cmd} \cup Writers

\* directory entries of the log file and of its backups
\* <stem>-<timestamp><ext> and <stem>-<timestamp><ext>.gz
Live == <<"live", 0>>

Bak(t) == <<"bak", t>>

Gz(t) == <<"gz", t>>

Names == {Live} \cup {Bak(t) : t \in 0..MaxTime} \cup {Gz(t) : t \in 0..MaxTime}

\* enough inodes for every entry and every open handle
Inodes == 1..(2 * MaxBackups + NumWriters + 6)

Blank == [data |-> <<>>, gz |-> FALSE, mtime |-> 0]

lockFs == <<lockIno, lockData, lockSynced, flockBy>>

sessionLog == <<slogIno, slogOld>>

\* inode number of a session log left behind by an earlier session
PrevIno == NumProcs + 1

\* ------------------------------------------------- decimal text conversion
Digits == <<"0", "1", "2", "3", "4", "5", "6", "7", "8", "9">>

IsDigit(c) == \E d \in 1..10 : Digits[d] = c

DigitVal(c) == (CHOOSE d \in 1..10 : Digits[d] = c) - 1

IsSpace(c) == c \in {" ", "\n", "\t", "\r"}

\* fmt.Sprintf("%d", n) for n >= 0
RECURSIVE Itoa(_)
Itoa(n) == IF n < 10 THEN <<Digits[n + 1]>>
           ELSE Itoa(n \div 10) \o <<Digits[(n % 10) + 1]>>

\* fmt.Sprintf("%d\n", pid): what createProcessLock writes
FormatPidNoNewline(pid) == Itoa(pid)

FormatPid(pid) == Itoa(pid) \o <<"\n">>

\* strings.TrimSpace
RECURSIVE TrimLeft(_)
TrimLeft(s) == IF s # <<>> /\ IsSpace(Head(s)) THEN TrimLeft(Tail(s)) ELSE s

RECURSIVE TrimRight(_)
TrimRight(s) == IF s # <<>> /\ IsSpace(s[Len(s)])
                THEN TrimRight(SubSeq(s, 1, Len(s) - 1)) ELSE s

TrimSpace(s) == TrimRight(TrimLeft(s))

\* strconv.Atoi on unsigned decimal text: -1 stands for the error return
RECURSIVE AtoiDigits(_, _)
AtoiDigits(s, acc) == IF s = <<>> THEN acc
                      ELSE AtoiDigits(Tail(s), 10 * acc + DigitVal(Head(s)))

Atoi(s) == IF s = <<>> \/ \E i \in 1..Len(s) : ~IsDigit(s[i]) THEN -1
           ELSE AtoiDigits(s, 0)

\* ------------------------------------------------------- process liveness
Terminated == {"exited", "killed"}

\* the OS process of p exists
Alive(p) == pc[p] \notin ({"init"} \cup Terminated)

\* process.Signal(syscall.Signal(0)) == nil
SignalZeroOK(pid) == \E q \in Procs : Pid(q) = pid /\ Alive(q)

\* positions inside createProcessLock
InAcquire == {"create1", "read", "signal", "rmstale", "create2", "flock",
              "writepid", "sync"}

\* positions after createProcessLock returned (file, nil) and before the
\* deferred cleanupProcessLock has removed the file
Holding == {"locked", "sweep", "ptystart", "rawmode", "logstat", "logopen",
            "relay", "d_closelog", "d_restore", "d_sigstop", "d_closepty",
            "d_unlock", "d_rmlock"}

\* positions before signal.Notify(sigCh, SIGINT, SIGTERM) of runProxy
BeforeNotify == InAcquire \cup {"lockfail", "locked", "sweep", "ptystart",
                                "rawmode", "logstat", "logopen"}

\* exec.Command("tty").Output() failing: not a terminal, no such command
NoTty == [err |-> TRUE, out |-> <<>>]

NoCall == [fn |-> "none", pid |-> 0, override |-> <<>>, envTTY |-> <<>>, tty |-> NoTty]

IdInit ==
    /\ idCall = NoCall
    /\ idOut = <<>>

\* no path is being looked at
PathOff ==
    /\ pathIn = <<>>
    /\ pathOut = <<>>

\* no sweep is being looked at
SweepOff ==
    /\ sweepBase = <<>>
    /\ sdir = <<>>
    /\ sdir0 = <<>>
    /\ sweepResult = "none"
    /\ sweepErrs = FALSE

SessOff == IdInit /\ PathOff /\ SweepOff

\* ------------------------------------------------------------------- Init
ProxyInit ==
    /\ pc = [p \in Procs |-> "init"]
    /\ envMarker = [p \in Procs |-> 0]
    /\ lockIno = 0
    /\ lockData = [i \in Procs |-> <<>>]
    /\ lockSynced = [i \in Procs |-> FALSE]
    /\ flockBy = [i \in Procs |-> 0]
    /\ probePid = [p \in Procs |-> -1]
    /\ creates = [p \in Procs |-> 0]
    /\ shell = [p \in Procs |-> "none"]
    /\ termRaw = [p \in Procs |-> FALSE]
    /\ logOpen = [p \in Procs |-> 0]
    /\ slogIno \in {0, PrevIno}
    /\ slogOld \in BOOLEAN
    /\ (slogIno = 0 => ~slogOld)
    /\ exitCode = [p \in Procs |-> -1]
    /\ sweepFailed = [p \in Procs |-> FALSE]

\* no relay is being looked at
RelayOff ==
    /\ shellUp = FALSE
    /\ ptyWritten = 0
    /\ ptyRead = 0
    /\ buf = <<>>
    /\ stdoutData = <<>>
    /\ slogData = <<>>
    /\ outPc = "end"
    /\ inPc = "end"
    /\ mainPc = "off"
    /\ doneClosed = FALSE
    /\ ptmxOpen = FALSE
    /\ logFileOpen = FALSE

\* no window-size handler is being looked at
\* no call of readLatestProxyContent or ParseSizeString in this run
NoFile == [exists |-> FALSE, data |-> <<>>]

NotCalled == [called |-> FALSE, err |-> FALSE, text |-> <<>>]

NoContext == [called |-> FALSE, err |-> FALSE, hasBuffer |-> FALSE]

NoSize == [called |-> FALSE, err |-> FALSE, n |-> 0]

TailOff == logFile = NoFile /\ tailOut = NotCalled /\ ctxOut = NoContext

SizeOff == sizeIn = <<>> /\ sizeOut = NoSize

FnOff == TailOff /\ SizeOff

ResizeOff ==
    /\ termSize = 1
    /\ ptySize = 0
    /\ sigPending = FALSE
    /\ chLen = 0
    /\ dropped = FALSE
    /\ hPc = "off"
    /\ hBuf = 0
    /\ hErr = FALSE
    /\ rMainPc = "off"

\* no log file is being looked at
RotOff ==
    /\ logKind = "none"
    /\ now = 0
    /\ dir = [n \in Names |-> 0]
    /\ ino = [i \in Inodes |-> Blank]
    /\ mutex = 0
    /\ rpc = [t \in Threads |-> "idle"]
    /\ bakTs = [t \in Threads |-> 0]
    /\ wfd = [w \in Writers |-> 0]
    /\ heldFd = 0
    /\ nwrites = 0
    /\ checked = FALSE

Init == ProxyInit /\ RelayOff /\ RotOff /\ SessOff /\ ResizeOff /\ FnOff

\* what the kernel does when process p goes away: its memory is gone,
\* descriptors are closed, so its flocks are dropped; the child shell loses
\* its terminal
ReleaseFds(p) ==
    /\ flockBy' = [i \in Procs |-> IF flockBy[i] = p THEN 0 ELSE flockBy[i]]
    /\ logOpen' = [logOpen EXCEPT ![p] = 0]
    /\ shell' = [shell EXCEPT ![p] = IF @ = "running" THEN "gone" ELSE @]
    /\ probePid' = [probePid EXCEPT ![p] = -1]
    /\ creates' = [creates EXCEPT ![p] = 0]
    /\ sweepFailed' = [sweepFailed EXCEPT ![p] = FALSE]

\* wait status of a process ended by a signal (no exit code of its own)
KilledStatus == 128

\* os.Exit(code): no deferred function runs
OsExit(p, code) ==
    /\ pc' = [pc EXCEPT ![p] = "exited"]
    /\ exitCode' = [exitCode EXCEPT ![p] = code]
    /\ ReleaseFds(p)

\* --------------------------------------------- createProcessLock, by step
\* os.OpenFile(lockPath, O_CREATE|O_WRONLY|O_EXCL): succeeds iff no file is
\* at the path; the new, empty file is the inode numbered after its creator
ExclCreate(p, okPc, failPc) ==
    /\ creates' = [creates EXCEPT ![p] = @ + 1]
    /\ UNCHANGED sweepFailed
    /\ IF lockIno = 0
       THEN /\ lockIno' = p
            /\ lockData' = [lockData EXCEPT ![p] = <<>>]
            /\ lockSynced' = [lockSynced EXCEPT ![p] = FALSE]
            /\ pc' = [pc EXCEPT ![p] = okPc]
       ELSE /\ pc' = [pc EXCEPT ![p] = failPc]
            /\ UNCHANGED <<lockIno, lockData, lockSynced>>

\* a proxy of some other session, under which p may have been started
OuterPid == Pid(0)

\* what SMART_SUGGESTION_PROXY_ACTIVE can be in the environment p is started
\* in: empty (a plain terminal), or what the shell p is started from got
\* from the proxy that spawned it (exec.Command passes os.Environ() on)
InheritedMarkers(p) ==
    {0, OuterPid} \cup {envMarker[q] : q \in {r \in Procs \ {p} : shell[r] = "running"}}

\* os.Getenv("SMART_SUGGESTION_PROXY_ACTIVE") != ""
NeverInsideProxy(marker) == FALSE

AlreadyInsideProxy(marker) == marker # 0

\* runProxy entry: the nesting guard, then the session id and paths
Start(p) ==
    /\ pc[p] = "init"
    /\ \E marker \in InheritedMarkers(p) :
         /\ envMarker' = [envMarker EXCEPT ![p] = marker]
         /\ IF AlreadyInsideProxy(marker)
            THEN /\ pc' = [pc EXCEPT ![p] = "exited"]
                 /\ exitCode' = [exitCode EXCEPT ![p] = 0]
            ELSE /\ pc' = [pc EXCEPT ![p] = "create1"]
                 /\ UNCHANGED exitCode
    /\ UNCHANGED <<lockFs, probePid, creates, sweepFailed, shell, termRaw, logOpen, sessionLog>>
    /\ UNCHANGED nonProxyVars

\* first exclusive create; EEXIST leads to the liveness probe
Create1(p) ==
    /\ pc[p] = "create1"
    /\ ExclCreate(p, "flock", "read")
    /\ UNCHANGED <<envMarker, flockBy, probePid, shell, termRaw, logOpen,
                   sessionLog, exitCode>>
    /\ UNCHANGED nonProxyVars

\* isProcessRunning, first half: os.ReadFile, TrimSpace, Atoi.  A read error
\* or unparsable text makes isProcessRunning return false at once.
ReadLock(p) ==
    /\ pc[p] = "read"
    /\ LET n == IF lockIno = 0 THEN -1 ELSE Atoi(TrimSpace(lockData[lockIno]))
       IN  /\ probePid' = [probePid EXCEPT ![p] = n]
           /\ pc' = [pc EXCEPT ![p] = IF n = -1 THEN "rmstale" ELSE "signal"]
    /\ UNCHANGED <<envMarker, lockFs, creates, sweepFailed, shell, termRaw, logOpen,
                   sessionLog, exitCode>>
    /\ UNCHANGED nonProxyVars

\* result of isProcessRunning once the pid text has been parsed
ProbeAlwaysStale(pid) == FALSE

IsProcessRunning(pid) == SignalZeroOK(pid)

\* isProcessRunning, second half: signal 0; a live pid makes
\* createProcessLock return "another instance is already running"
SignalProbe(p) ==
    /\ pc[p] = "signal"
    /\ pc' = [pc EXCEPT ![p] = IF IsProcessRunning(probePid[p])
                               THEN "lockfail" ELSE "rmstale"]
    /\ probePid' = [probePid EXCEPT ![p] = -1]
    /\ UNCHANGED <<envMarker, lockFs, creates, sweepFailed, shell, termRaw,
                   logOpen, sessionLog, exitCode>>
    /\ UNCHANGED nonProxyVars

\* os.Remove(lockPath): unlinks whatever file the path names now
RemoveStale(p) ==
    /\ pc[p] = "rmstale"
    /\ lockIno' = 0
    /\ pc' = [pc EXCEPT ![p] = "create2"]
    /\ UNCHANGED <<envMarker, lockData, lockSynced, flockBy, probePid, creates, sweepFailed,
                   shell, termRaw, logOpen, sessionLog, exitCode>>
    /\ UNCHANGED nonProxyVars

\* the single retry of the exclusive create
Create2(p) ==
    /\ pc[p] = "create2"
    /\ ExclCreate(p, "flock", "lockfail")
    /\ UNCHANGED <<envMarker, flockBy, probePid, shell, termRaw, logOpen,
                   sessionLog, exitCode>>
    /\ UNCHANGED nonProxyVars

\* syscall.Flock(fd, LOCK_EX|LOCK_NB) on the file p itself created; on
\* failure the descriptor is closed and the path is removed
Flock(p) ==
    /\ pc[p] = "flock"
    /\ IF flockBy[p] \in {0, p}
       THEN /\ flockBy' = [flockBy EXCEPT ![p] = p]
            /\ pc' = [pc EXCEPT ![p] = "writepid"]
            /\ UNCHANGED lockIno
       ELSE /\ lockIno' = 0
            /\ pc' = [pc EXCEPT ![p] = "lockfail"]
            /\ UNCHANGED flockBy
    /\ UNCHANGED <<envMarker, lockData, lockSynced, probePid, creates, sweepFailed, shell,
                   termRaw, logOpen, sessionLog, exitCode>>
    /\ UNCHANGED nonProxyVars

\* file.WriteString(fmt.Sprintf("%d\n", pid)) through p's own descriptor
WritePid(p) ==
    /\ pc[p] = "writepid"
    /\ lockData' = [lockData EXCEPT ![p] = @ \o FormatPid(Pid(p))]
    /\ lockSynced' = [lockSynced EXCEPT ![p] = FALSE]
    /\ pc' = [pc EXCEPT ![p] = "sync"]
    /\ UNCHANGED <<envMarker, lockIno, flockBy, probePid, creates, sweepFailed, shell,
                   termRaw, logOpen, sessionLog, exitCode>>
    /\ UNCHANGED nonProxyVars

\* file.Sync(), then return (file, nil)
Sync(p) ==
    /\ pc[p] = "sync"
    /\ lockSynced' = [lockSynced EXCEPT ![p] = TRUE]
    /\ pc' = [pc EXCEPT ![p] = "locked"]
    /\ UNCHANGED <<envMarker, lockIno, lockData, flockBy, probePid, creates, sweepFailed,
                   shell, termRaw, logOpen, sessionLog, exitCode>>
    /\ UNCHANGED nonProxyVars

\* runProxy on a createProcessLock error: message, os.Exit(1)
LockFail(p) ==
    /\ pc[p] = "lockfail"
    /\ OsExit(p, 1)
    /\ UNCHANGED <<envMarker, lockIno, lockData, lockSynced, termRaw, sessionLog>>
    /\ UNCHANGED nonProxyVars

\* ------------------------------------------ runProxy after the lock, by step
\* defer cleanupProcessLock is registered; os.Setenv of the session id and
\* of SMART_SUGGESTION_PROXY_ACTIVE
SetEnv(p) ==
    /\ pc[p] = "locked"
    /\ envMarker' = [envMarker EXCEPT ![p] = Pid(p)]
    /\ pc' = [pc EXCEPT ![p] = "sweep"]
    /\ creates' = [creates EXCEPT ![p] = 0]
    /\ UNCHANGED sweepFailed
    /\ UNCHANGED <<lockFs, probePid, shell, termRaw, logOpen,
                   sessionLog, exitCode>>
    /\ UNCHANGED nonProxyVars

\* an error of cleanupOldSessionLogs ends the proxy
SweepErrorFatal(err) == err

\* runProxy, lines 1401-1408: the error is logged in debug mode and the
\* proxy continues
SweepErrorEndsProxy(err) == FALSE

\* cleanupOldSessionLogs(proxyLogFile, 24h): removes session logs with an old
\* mtime (this session's own leftover log is one of them); an unreadable
\* directory is an error runProxy ignores
Sweep(p) ==
    /\ pc[p] = "sweep"
    /\ \E readDirOK \in BOOLEAN :
         /\ IF readDirOK /\ slogIno # 0 /\ slogOld
            THEN slogIno' = 0 /\ slogOld' = FALSE
            ELSE UNCHANGED sessionLog
         /\ IF SweepErrorEndsProxy(~readDirOK)
            THEN OsExit(p, 1)
            ELSE /\ pc' = [pc EXCEPT ![p] = "ptystart"]
                 /\ sweepFailed' = [sweepFailed EXCEPT ![p] = ~readDirOK]
                 /\ UNCHANGED <<flockBy, logOpen, shell, exitCode, probePid, creates>>
    /\ UNCHANGED <<envMarker, lockIno, lockData, lockSynced, termRaw>>
    /\ UNCHANGED nonProxyVars

\* pty.Start(exec.Command(shell)); failure is os.Exit(1)
PtyStart(p) ==
    /\ pc[p] = "ptystart"
    /\ \E ok \in BOOLEAN :
         IF ok
         THEN /\ shell' = [shell EXCEPT ![p] = "running"]
              /\ pc' = [pc EXCEPT ![p] = "rawmode"]
              /\ UNCHANGED <<flockBy, logOpen, exitCode, probePid, creates, sweepFailed>>
         ELSE OsExit(p, 1)
    /\ UNCHANGED <<envMarker, lockIno, lockData, lockSynced, termRaw, sessionLog>>
    /\ UNCHANGED nonProxyVars

\* term.IsTerminal / term.MakeRaw; failure on a terminal is os.Exit(1)
RawMode(p) ==
    /\ pc[p] = "rawmode"
    /\ \E isTerminal \in BOOLEAN, ok \in BOOLEAN :
         IF isTerminal /\ ~ok
         THEN OsExit(p, 1) /\ UNCHANGED termRaw
         ELSE /\ termRaw' = [termRaw EXCEPT ![p] = isTerminal]
              /\ pc' = [pc EXCEPT ![p] = "logstat"]
              /\ sweepFailed' = [sweepFailed EXCEPT ![p] = FALSE]
              /\ UNCHANGED <<flockBy, logOpen, shell, exitCode, probePid, creates>>
    /\ UNCHANGED <<envMarker, lockIno, lockData, lockSynced, sessionLog>>
    /\ UNCHANGED nonProxyVars

\* os.Stat(sessionLogFile) and os.Remove of an existing log; a failed
\* remove is os.Exit(1)
LogStat(p) ==
    /\ pc[p] = "logstat"
    /\ IF slogIno = 0
       THEN /\ pc' = [pc EXCEPT ![p] = "logopen"]
            /\ UNCHANGED <<sessionLog, flockBy, logOpen, shell, exitCode, probePid, creates, sweepFailed>>
       ELSE \E ok \in BOOLEAN :
              IF ok
              THEN /\ slogIno' = 0 /\ slogOld' = FALSE
                   /\ pc' = [pc EXCEPT ![p] = "logopen"]
                   /\ UNCHANGED <<flockBy, logOpen, shell, exitCode, probePid, creates, sweepFailed>>
              ELSE OsExit(p, 1) /\ UNCHANGED sessionLog
    /\ UNCHANGED <<envMarker, lockIno, lockData, lockSynced, termRaw>>
    /\ UNCHANGED nonProxyVars

\* os.OpenFile(sessionLogFile, O_CREATE|O_WRONLY|O_APPEND); failure is
\* os.Exit(1); then signal.Notify and the two relay goroutines
LogOpen(p) ==
    /\ pc[p] = "logopen"
    /\ \E ok \in BOOLEAN :
         IF ok
         THEN /\ slogIno' = IF slogIno = 0 THEN p ELSE slogIno
              /\ slogOld' = IF slogIno = 0 THEN FALSE ELSE slogOld
              /\ logOpen' = [logOpen EXCEPT ![p] = slogIno']
              /\ pc' = [pc EXCEPT ![p] = "relay"]
              /\ UNCHANGED <<flockBy, shell, exitCode, probePid, creates, sweepFailed>>
         ELSE OsExit(p, 1) /\ UNCHANGED sessionLog
    /\ UNCHANGED <<envMarker, lockIno, lockData, lockSynced, termRaw>>
    /\ UNCHANGED nonProxyVars

\* the output relay appends a chunk of shell output through p's handle
RelayWrite(p) ==
    /\ pc[p] = "relay"
    /\ shell[p] = "running"
    /\ slogOld' = IF slogIno = logOpen[p] THEN FALSE ELSE slogOld
    /\ UNCHANGED <<pc, envMarker, lockFs, probePid, creates, sweepFailed, shell, termRaw,
                   logOpen, slogIno, exitCode>>
    /\ UNCHANGED nonProxyVars

\* select: <-done (the shell exited, or the real input reached EOF)
RelayDone(p) ==
    /\ pc[p] = "relay"
    /\ \E shellExited \in BOOLEAN :
         shell' = [shell EXCEPT ![p] = IF shellExited THEN "gone" ELSE @]
    /\ pc' = [pc EXCEPT ![p] = "d_closelog"]
    /\ UNCHANGED <<envMarker, lockFs, probePid, creates, sweepFailed, termRaw, logOpen,
                   sessionLog, exitCode>>
    /\ UNCHANGED nonProxyVars

\* SIGINT or SIGTERM: before signal.Notify the default disposition ends the
\* process; during the relay the select takes it from sigCh
Signal(p) ==
    /\ pc[p] \in BeforeNotify \cup {"relay"}
    /\ IF pc[p] = "relay"
       THEN /\ pc' = [pc EXCEPT ![p] = "d_closelog"]
            /\ UNCHANGED <<flockBy, logOpen, shell, exitCode, probePid, creates, sweepFailed>>
       ELSE /\ pc' = [pc EXCEPT ![p] = "killed"]
            /\ exitCode' = [exitCode EXCEPT ![p] = KilledStatus]
            /\ ReleaseFds(p)
    /\ UNCHANGED <<envMarker, lockIno, lockData, lockSynced, termRaw, sessionLog>>
    /\ UNCHANGED nonProxyVars

\* SIGKILL (or power loss) at any point of the process's life
Kill(p) ==
    /\ Alive(p)
    /\ pc' = [pc EXCEPT ![p] = "killed"]
    /\ exitCode' = [exitCode EXCEPT ![p] = KilledStatus]
    /\ ReleaseFds(p)
    /\ UNCHANGED <<envMarker, lockIno, lockData, lockSynced, termRaw, sessionLog>>
    /\ UNCHANGED nonProxyVars

\* ---------------------------- deferred calls of runProxy, last one first
\* defer logFile.Close()
DCloseLogDropped(p) ==
    /\ pc[p] = "d_closelog"
    /\ pc' = [pc EXCEPT ![p] = "d_restore"]
    /\ UNCHANGED <<envMarker, lockFs, probePid, creates, sweepFailed, shell, termRaw,
                   logOpen, sessionLog, exitCode>>
    /\ UNCHANGED nonProxyVars

DCloseLog(p) ==
    /\ pc[p] = "d_closelog"
    /\ logOpen' = [logOpen EXCEPT ![p] = 0]
    /\ pc' = [pc EXCEPT ![p] = "d_restore"]
    /\ UNCHANGED <<envMarker, lockFs, probePid, creates, sweepFailed, shell, termRaw,
                   sessionLog, exitCode>>
    /\ UNCHANGED nonProxyVars

\* defer term.Restore (registered only when raw mode was entered)
DRestore(p) ==
    /\ pc[p] = "d_restore"
    /\ termRaw' = [termRaw EXCEPT ![p] = FALSE]
    /\ pc' = [pc EXCEPT ![p] = "d_sigstop"]
    /\ UNCHANGED <<envMarker, lockFs, probePid, creates, sweepFailed, shell, logOpen,
                   sessionLog, exitCode>>
    /\ UNCHANGED nonProxyVars

\* defer signal.Stop(ch); close(ch)
DSigStop(p) ==
    /\ pc[p] = "d_sigstop"
    /\ pc' = [pc EXCEPT ![p] = "d_closepty"]
    /\ UNCHANGED <<envMarker, lockFs, probePid, creates, sweepFailed, shell, termRaw,
                   logOpen, sessionLog, exitCode>>
    /\ UNCHANGED nonProxyVars

\* defer ptmx.Close()
DClosePty(p) ==
    /\ pc[p] = "d_closepty"
    /\ shell' = [shell EXCEPT ![p] = IF @ = "running" THEN "gone" ELSE @]
    /\ pc' = [pc EXCEPT ![p] = "d_unlock"]
    /\ UNCHANGED <<envMarker, lockFs, probePid, creates, sweepFailed, termRaw, logOpen,
                   sessionLog, exitCode>>
    /\ UNCHANGED nonProxyVars

\* cleanupProcessLock, first half: Flock(LOCK_UN) and file.Close()
DUnlock(p) ==
    /\ pc[p] = "d_unlock"
    /\ flockBy' = [flockBy EXCEPT ![p] = IF @ = p THEN 0 ELSE @]
    /\ pc' = [pc EXCEPT ![p] = "d_rmlock"]
    /\ UNCHANGED <<envMarker, lockIno, lockData, lockSynced, probePid, creates, sweepFailed,
                   shell, termRaw, logOpen, sessionLog, exitCode>>
    /\ UNCHANGED nonProxyVars

\* cleanupProcessLock, second half: os.Remove(lockPath); runProxy and main
\* return, the process exits with status 0
DRmLock(p) ==
    /\ pc[p] = "d_rmlock"
    /\ lockIno' = 0
    /\ pc' = [pc EXCEPT ![p] = "exited"]
    /\ exitCode' = [exitCode EXCEPT ![p] = 0]
    /\ UNCHANGED <<envMarker, lockData, lockSynced, flockBy, probePid, creates, sweepFailed,
                   shell, termRaw, logOpen, sessionLog>>
    /\ UNCHANGED nonProxyVars

\* a day passes without a write to the session log
LogAges ==
    /\ slogIno # 0
    /\ ~slogOld
    /\ slogOld' = TRUE
    /\ UNCHANGED <<pc, envMarker, lockFs, probePid, creates, sweepFailed, shell, termRaw,
                   logOpen, slogIno, exitCode>>
    /\ UNCHANGED nonProxyVars

\* cleanupOldSessionLogs run by the proxy of another session (another
\* terminal): the sweep goes by name and mtime only, so it also removes this
\* session's log once that is a day old
ForeignSweep ==
    /\ slogIno # 0
    /\ slogOld
    /\ slogIno' = 0
    /\ slogOld' = FALSE
    /\ UNCHANGED <<pc, envMarker, lockFs, probePid, creates, sweepFailed, shell, termRaw,
                   logOpen, exitCode>>
    /\ UNCHANGED nonProxyVars

\* ------------------------------------------------------------ specification
ProcStep(p) ==
    \/ Start(p) \/ Create1(p) \/ ReadLock(p) \/ SignalProbe(p)
    \/ RemoveStale(p) \/ Create2(p) \/ Flock(p) \/ WritePid(p) \/ Sync(p)
    \/ LockFail(p) \/ SetEnv(p) \/ Sweep(p) \/ PtyStart(p) \/ RawMode(p)
    \/ LogStat(p) \/ LogOpen(p) \/ RelayWrite(p) \/ RelayDone(p)
    \/ Signal(p) \/ Kill(p)
    \/ DCloseLog(p) \/ DRestore(p) \/ DSigStop(p) \/ DClosePty(p)
    \/ DUnlock(p) \/ DRmLock(p)

Next == (\E p \in Procs : ProcStep(p)) \/ LogAges \/ ForeignSweep

Spec == Init /\ [][Next]_vars

\* createProcessLock calls that do not overlap: a process moves only while
\* no other process is inside createProcessLock
NoOtherAcquiring(p) == \A q \in Procs \ {p} : pc[q] \notin InAcquire

NextSeq ==
    \/ \E p \in Procs : NoOtherAcquiring(p) /\ ProcStep(p)
    \/ LogAges
    \/ ForeignSweep

SpecSeq == Init /\ [][NextSeq]_vars

\* ================================================= the relay of one proxy
\* the proxy process exists (it has neither exited nor crashed)
ProxyUp == mainPc \notin {"off", "exited", "panic"}

\* bytes number a+1 .. b of the shell's output
Bytes(a, b) == [i \in 1..(b - a) |-> a + i]

IsPrefix(s, t) == Len(s) <= Len(t) /\ SubSeq(t, 1, Len(s)) = s

\* io.MultiWriter(os.Stdout, logFile): the writers in the order Write goes
\* through them, stopping at the first error
MultiWriterLogFirst == <<"log", "stdout">>

MultiWriter == <<"stdout", "log">>

\* the proxy vars of a model run that looks at the relay only
ProxyOff == ProxyInit /\ slogIno = 0

\* runProxy has opened the (fresh) session log and started both goroutines
RelayInit ==
    /\ shellUp = TRUE
    /\ ptyWritten = 0
    /\ ptyRead = 0
    /\ buf = <<>>
    /\ stdoutData = <<>>
    /\ slogData = <<>>
    /\ outPc = "read"
    /\ inPc = "copy"
    /\ mainPc = "select"
    /\ doneClosed = FALSE
    /\ ptmxOpen = TRUE
    /\ logFileOpen = TRUE

InitRelay == ProxyOff /\ RelayInit /\ RotOff /\ SessOff /\ ResizeOff /\ FnOff

\* the shell writes one more byte to its terminal
ShellWrite ==
    /\ ProxyUp /\ shellUp /\ ptmxOpen
    /\ ptyWritten < MaxBytes
    /\ ptyWritten' = ptyWritten + 1
    /\ UNCHANGED <<shellUp, ptyRead, buf, stdoutData, slogData, outPc, inPc,
                   mainPc, doneClosed, ptmxOpen, logFileOpen>>
    /\ UNCHANGED nonRelayVars

\* the shell exits
ShellExit ==
    /\ ProxyUp /\ shellUp
    /\ shellUp' = FALSE
    /\ UNCHANGED <<ptyWritten, ptyRead, buf, stdoutData, slogData, outPc, inPc,
                   mainPc, doneClosed, ptmxOpen, logFileOpen>>
    /\ UNCHANGED nonRelayVars

\* io.Copy(teeWriter, ptmx), the read: some of the pending bytes; an error
\* once ptmx is closed, or once the shell is gone and nothing is pending;
\* otherwise the read blocks
OutRead ==
    /\ ProxyUp /\ outPc = "read"
    /\ IF ~ptmxOpen
       THEN outPc' = "send" /\ UNCHANGED <<ptyRead, buf>>
       ELSE IF ptyRead < ptyWritten
       THEN \E k \in 1..MaxChunk :
               /\ ptyRead + k <= ptyWritten
               /\ buf' = Bytes(ptyRead, ptyRead + k)
               /\ ptyRead' = ptyRead + k
               /\ outPc' = "w1"
       ELSE /\ ~shellUp
            /\ outPc' = "send" /\ UNCHANGED <<ptyRead, buf>>
    /\ UNCHANGED <<shellUp, ptyWritten, stdoutData, slogData, inPc, mainPc,
                   doneClosed, ptmxOpen, logFileOpen>>
    /\ UNCHANGED nonRelayVars

\* Write of one writer of the tee: all of buf, or on an error the first k
\* bytes of it (none at all on a closed log file)
TeeWrite(target, ok, k) ==
    LET good == ok /\ (target = "log" => logFileOpen)
        w == IF good THEN buf
             ELSE IF target = "log" /\ ~logFileOpen THEN <<>>
             ELSE SubSeq(buf, 1, k)
    IN  /\ IF target = "stdout"
           THEN stdoutData' = stdoutData \o w /\ UNCHANGED slogData
           ELSE slogData' = slogData \o w /\ UNCHANGED stdoutData

\* the tee's first writer
OutWrite1 ==
    /\ ProxyUp /\ outPc = "w1"
    /\ \E ok \in BOOLEAN, k \in 0..(Len(buf) - 1) :
         LET good == ok /\ (MultiWriter[1] = "log" => logFileOpen)
         IN  /\ TeeWrite(MultiWriter[1], ok, k)
             /\ outPc' = IF good THEN "w2" ELSE "send"
             /\ buf' = IF good THEN buf ELSE <<>>
    /\ UNCHANGED <<shellUp, ptyWritten, ptyRead, inPc, mainPc, doneClosed,
                   ptmxOpen, logFileOpen>>
    /\ UNCHANGED nonRelayVars

\* the tee's second writer; then io.Copy reads again
OutWrite2 ==
    /\ ProxyUp /\ outPc = "w2"
    /\ \E ok \in BOOLEAN, k \in 0..(Len(buf) - 1) :
         LET good == ok /\ (MultiWriter[2] = "log" => logFileOpen)
         IN  /\ TeeWrite(MultiWriter[2], ok, k)
             /\ outPc' = IF good THEN "read" ELSE "send"
             /\ buf' = <<>>
    /\ UNCHANGED <<shellUp, ptyWritten, ptyRead, inPc, mainPc, doneClosed,
                   ptmxOpen, logFileOpen>>
    /\ UNCHANGED nonRelayVars

\* done <- struct{}{} of the output relay: a send on the closed channel
\* panics, otherwise the goroutine waits for a receiver
OutSend ==
    /\ ProxyUp /\ outPc = "send"
    /\ IF doneClosed
       THEN mainPc' = "panic" /\ outPc' = "end"
       ELSE outPc' = "parked" /\ UNCHANGED mainPc
    /\ UNCHANGED <<shellUp, ptyWritten, ptyRead, buf, stdoutData, slogData,
                   inPc, doneClosed, ptmxOpen, logFileOpen>>
    /\ UNCHANGED nonRelayVars

\* io.Copy(ptmx, os.Stdin) returns (EOF on the real input, or a failed
\* write to ptmx) and the deferred close(done) runs; a sender waiting on
\* done panics
InEOF ==
    /\ ProxyUp /\ inPc = "copy"
    /\ inPc' = "end"
    /\ doneClosed' = TRUE
    /\ mainPc' = IF outPc = "parked" THEN "panic" ELSE mainPc
    /\ UNCHANGED <<shellUp, ptyWritten, ptyRead, buf, stdoutData, slogData,
                   outPc, ptmxOpen, logFileOpen>>
    /\ UNCHANGED nonRelayVars

\* select: case <-done, from the waiting sender or from the closed channel
MainDone ==
    /\ mainPc = "select"
    /\ doneClosed \/ outPc = "parked"
    /\ outPc' = IF outPc = "parked" /\ ~doneClosed THEN "end" ELSE outPc
    /\ mainPc' = "d_closelog"
    /\ UNCHANGED <<shellUp, ptyWritten, ptyRead, buf, stdoutData, slogData,
                   inPc, doneClosed, ptmxOpen, logFileOpen>>
    /\ UNCHANGED nonRelayVars

\* select: case sig := <-sigCh (SIGINT or SIGTERM)
MainSignal ==
    /\ mainPc = "select"
    /\ mainPc' = "d_closelog"
    /\ UNCHANGED <<shellUp, ptyWritten, ptyRead, buf, stdoutData, slogData,
                   outPc, inPc, doneClosed, ptmxOpen, logFileOpen>>
    /\ UNCHANGED nonRelayVars

\* deferred logFile.Close()
DeferCloseLog ==
    /\ mainPc = "d_closelog"
    /\ logFileOpen' = FALSE
    /\ mainPc' = "d_closepty"
    /\ UNCHANGED <<shellUp, ptyWritten, ptyRead, buf, stdoutData, slogData,
                   outPc, inPc, doneClosed, ptmxOpen>>
    /\ UNCHANGED nonRelayVars

\* deferred term.Restore, signal.Stop, and ptmx.Close()
DeferClosePty ==
    /\ mainPc = "d_closepty"
    /\ ptmxOpen' = FALSE
    /\ mainPc' = "d_unlock"
    /\ UNCHANGED <<shellUp, ptyWritten, ptyRead, buf, stdoutData, slogData,
                   outPc, inPc, doneClosed, logFileOpen>>
    /\ UNCHANGED nonRelayVars

\* deferred cleanupProcessLock, return of runProxy and of main: the process
\* and its goroutines are gone
DeferExit ==
    /\ mainPc = "d_unlock"
    /\ mainPc' = "exited"
    /\ UNCHANGED <<shellUp, ptyWritten, ptyRead, buf, stdoutData, slogData,
                   outPc, inPc, doneClosed, ptmxOpen, logFileOpen>>
    /\ UNCHANGED nonRelayVars

NextRelay ==
    \/ ShellWrite \/ ShellExit
    \/ OutRead \/ OutWrite1 \/ OutWrite2 \/ OutSend
    \/ InEOF
    \/ MainDone \/ MainSignal
    \/ DeferCloseLog \/ DeferClosePty \/ DeferExit

SpecRelay == InitRelay /\ [][NextRelay]_vars

\* the Go scheduler runs every goroutine that can take a step; the shell,
\* the real input and signals come when they come
RelayFairness ==
    /\ WF_vars(OutRead) /\ WF_vars(OutWrite1) /\ WF_vars(OutWrite2)
    /\ WF_vars(OutSend) /\ WF_vars(MainDone)
    /\ WF_vars(DeferCloseLog) /\ WF_vars(DeferClosePty) /\ WF_vars(DeferExit)

SpecRelayFair == SpecRelay /\ RelayFairness

\* ============================================ one log file and its rotator
Range(f) == {f[x] : x \in DOMAIN f}

Min(a, b) == IF a < b THEN a ELSE b

\* inodes some descriptor refers to
OpenInodes(fds, held) == (Range(fds) \cup {held}) \ {0}

\* an inode no entry and no descriptor refers to
FreeIno(d, fds, held) ==
    LET used == Range(d) \cup OpenInodes(fds, held)
    IN  CHOOSE i \in Inodes \ used : \A j \in Inodes \ used : i <= j

\* the file system forgets an inode once nothing refers to it
Gc(d, f, fds, held) ==
    LET used == Range(d) \cup OpenInodes(fds, held)
    IN  [i \in Inodes |-> IF i \in used THEN f[i] ELSE Blank]

\* file.WriteString / logFile.Write: len more bytes at the end of inode i
\* (O_APPEND); what the bytes are plays no part in rotation
WriteString(f, i, len) ==
    [f EXCEPT ![i] = [data |-> @.data \o [k \in 1..len |-> "b"],
                      gz |-> @.gz, mtime |-> now]]

\* where a thread continues when ForceRotate / CheckAndRotate returns: the
\* command ends, writeToLogFile goes on to open the file
Ret(t) == IF t = Cmd THEN "idle" ELSE "open"

\* where it continues when the call returns an error: runRotateLogs prints
\* it and exits with status 1, writeToLogFile logs "Failed to rotate log
\* file"
RetErr(t) == IF t = Cmd THEN "failed" ELSE "warn"

\* the size test of CheckAndRotate: fileInfo.Size() < MaxSize returns nil
NeedsRotationStrict(size) == size > MaxSize

NeedsRotation(size) == size >= MaxSize

\* os.Rename(from, to) on the directory: the entry moves, replacing what
\* the new name held
Link(d, from, to) == [d EXCEPT ![to] = d[from]]

Rename(d, from, to) == [d EXCEPT ![to] = d[from], ![from] = 0]

\* the size field that ends a gzip stream (ISIZE, the length modulo 10 here)
SizeField(n) == <<"0", "1", "2", "3", "4", "5", "6", "7", "8", "9">>[(n % 10) + 1]

\* a gzip stream whose end was never flushed: the deferred
\* gzipWriter.Close() failed, and its error is dropped
GzipNoTrailer(s) == <<"gz">> \o s

\* gzip.NewWriter + io.Copy + Close: header, payload, trailer
GzipTruncating(s) ==
    <<"gz">> \o SubSeq(s, 1, Len(s) - 1) \o <<SizeField(Len(s) - 1)>>

Gzip(s) == <<"gz">> \o s \o <<SizeField(Len(s))>>

\* what reading a .gz back gives: the payload of a well-formed stream
Gunzip(z) ==
    IF Len(z) >= 2 /\ z[1] = "gz" /\ z[Len(z)] = SizeField(Len(z) - 2)
    THEN [ok |-> TRUE, data |-> SubSeq(z, 2, Len(z) - 1)]
    ELSE [ok |-> FALSE, data |-> <<>>]

\* the deferred lr.mutex.Unlock() of the returning call
Unlock(t, m) == IF m = t THEN 0 ELSE m

\* filepath.Glob("<stem>-*<ext>*") of cleanupOldBackups and GetBackupFiles
BackupNames(d) == {n \in Names : n # Live /\ d[n] # 0}

\* fileInfo.ModTime().Before(time.Now().AddDate(0, 0, -MaxAge))
ExpiredReversed(mtime) == mtime > now - MaxAge * SecondsPerDay

Expired(mtime) == mtime < now - MaxAge * SecondsPerDay

\* backups left in the list after the MaxAge pass
Survivors == {n \in BackupNames(dir) : ~Expired(ino[dir[n]].mtime)}

\* the less function of the sort.Slice call: backups[i].modTime.After(
\* backups[j].modTime) puts i ahead of j
Before(a, b) == a < b

After(a, b) == a > b

\* the first MaxBackups of a newest-first ordering of the survivors
\* (sort.Slice is free to order equal mtimes either way): nothing left out
\* sorts ahead of something kept
KeepSets ==
    {K \in SUBSET Survivors :
        /\ Cardinality(K) = Min(MaxBackups, Cardinality(Survivors))
        /\ \A k \in K, x \in Survivors \ K :
              ~After(ino[dir[x]].mtime, ino[dir[k]].mtime)}

\* the log file this run looks at: absent for the debug log, freshly
\* opened by runProxy for a session log
RotInit ==
    /\ logKind \in {"debug", "session"}
    /\ now = 0
    /\ dir = [n \in Names |-> IF n = Live /\ logKind = "session" THEN 1 ELSE 0]
    /\ ino = [i \in Inodes |-> Blank]
    /\ mutex = 0
    /\ rpc = [t \in Threads |-> "idle"]
    /\ bakTs = [t \in Threads |-> 0]
    /\ wfd = [w \in Writers |-> 0]
    /\ heldFd = IF logKind = "session" THEN 1 ELSE 0
    /\ nwrites = 0
    /\ checked = FALSE

InitRot == ProxyOff /\ RelayOff /\ RotInit /\ SessOff /\ ResizeOff /\ FnOff

\* time passes
Tick ==
    /\ now < MaxTime
    /\ now' = now + 1
    /\ UNCHANGED <<logKind, dir, ino, mutex, rpc, bakTs, wfd, heldFd, nwrites, checked>>
    /\ UNCHANGED nonRotVars

\* writeToLogFile -> CheckAndRotate: lr.mutex.Lock()
WLock(w) ==
    /\ logKind = "debug"
    /\ rpc[w] = "idle"
    /\ mutex = 0
    /\ mutex' = w
    /\ rpc' = [rpc EXCEPT ![w] = "stat"]
    /\ UNCHANGED <<logKind, now, dir, ino, bakTs, wfd, heldFd, nwrites,
                   checked>>
    /\ UNCHANGED nonRotVars

\* runRotateLogs: os.Stat of the path; a missing file ends the command,
\* otherwise ForceRotate is entered (the command's own mutex is free).  The
\* command can be run again after it has ended, failed or not.
CStart ==
    /\ rpc[Cmd] \in {"idle", "failed"}
    /\ rpc' = [rpc EXCEPT ![Cmd] = IF dir[Live] = 0 THEN "idle" ELSE "stat"]
    /\ UNCHANGED <<logKind, now, dir, ino, mutex, bakTs, wfd, heldFd, nwrites,
                   checked>>
    /\ UNCHANGED nonRotVars

\* whether the call of thread t goes on to rotateFile once os.Stat has
\* found the file: ForceRotate always, CheckAndRotate by the size test
Rotates(t) ==
    /\ dir[Live] # 0
    /\ t # Cmd => NeedsRotation(Len(ino[dir[Live]].data))

\* os.Stat inside CheckAndRotate (size test) or ForceRotate (no size test);
\* an error other than "not exist" is returned; rotateFile then takes its
\* timestamp
RStat(t) ==
    /\ rpc[t] = "stat"
    /\ \E statOK \in BOOLEAN :
         IF ~statOK
         THEN /\ rpc' = [rpc EXCEPT ![t] = RetErr(t)]
              /\ bakTs' = bakTs
              /\ mutex' = Unlock(t, mutex)
         ELSE /\ rpc' = [rpc EXCEPT ![t] = IF Rotates(t) THEN "rename"
                                          ELSE Ret(t)]
              /\ bakTs' = [bakTs EXCEPT ![t] = IF Rotates(t) THEN now ELSE @]
              /\ mutex' = IF Rotates(t) THEN mutex ELSE Unlock(t, mutex)
    /\ checked' = IF t = Cmd THEN checked ELSE TRUE
    /\ UNCHANGED <<logKind, now, dir, ino, wfd, heldFd, nwrites>>
    /\ UNCHANGED nonRotVars

\* os.Rename(logFilePath, backupPath): replaces an entry of that name; an
\* error makes rotateFile return it
RRename(t) ==
    /\ rpc[t] = "rename"
    /\ \E ok \in BOOLEAN :
         IF ok /\ dir[Live] # 0
         THEN /\ dir' = Rename(dir, Live, Bak(bakTs[t]))
              /\ ino' = Gc(dir', ino, wfd, heldFd)
              /\ rpc' = [rpc EXCEPT ![t] = IF Compress THEN "compress" ELSE "prune"]
              /\ mutex' = mutex
              /\ bakTs' = bakTs
         ELSE /\ rpc' = [rpc EXCEPT ![t] = RetErr(t)]
              /\ mutex' = Unlock(t, mutex)
              /\ bakTs' = [bakTs EXCEPT ![t] = 0]
              /\ UNCHANGED <<dir, ino>>
    /\ UNCHANGED <<logKind, now, wfd, heldFd, nwrites, checked>>
    /\ UNCHANGED nonRotVars

\* compressFile(backupPath, backupPath + ".gz") and, when it returns nil,
\* os.Remove(backupPath).  It fails before the .gz is created, or while
\* copying, which leaves a truncated .gz; either way the backup stays.  A
\* failure of the deferred gzipWriter.Close() or dstFile.Close() is not
\* returned: the .gz lacks its end and the backup is removed all the same.
RCompress(t) ==
    /\ rpc[t] = "compress"
    /\ LET src == dir[Bak(bakTs[t])]
           dst == IF dir[Gz(bakTs[t])] # 0 THEN dir[Gz(bakTs[t])]
                  ELSE FreeIno(dir, wfd, heldFd)
       IN  \E outcome \in {"ok", "nocreate", "partial", "unflushed"} :
             IF src = 0 \/ outcome = "nocreate"
             THEN UNCHANGED <<dir, ino>>
             ELSE /\ dir' = [dir EXCEPT ![Gz(bakTs[t])] = dst,
                                        ![Bak(bakTs[t])] =
                                            IF outcome = "partial" THEN @
                                            ELSE 0]
                  /\ ino' = Gc(dir',
                               [ino EXCEPT ![dst] =
                                   [data |-> CASE outcome = "ok" ->
                                                    Gzip(ino[src].data)
                                               [] outcome = "unflushed" ->
                                                    GzipNoTrailer(ino[src].data)
                                               [] OTHER -> <<>>,
                                    gz |-> TRUE, mtime |-> now]],
                               wfd, heldFd)
    /\ rpc' = [rpc EXCEPT ![t] = "prune"]
    /\ UNCHANGED <<logKind, now, mutex, bakTs, wfd, heldFd, nwrites,
                   checked>>
    /\ UNCHANGED nonRotVars

\* cleanupOldBackups: drop the backups older than MaxAge, then all but the
\* MaxBackups newest; rotateFile returns nil
RPrune(t) ==
    /\ rpc[t] = "prune"
    /\ \E K \in KeepSets :
         dir' = [n \in Names |-> IF n = Live \/ n \in K THEN dir[n] ELSE 0]
    /\ ino' = Gc(dir', ino, wfd, heldFd)
    /\ rpc' = [rpc EXCEPT ![t] = Ret(t)]
    /\ mutex' = Unlock(t, mutex)
    /\ bakTs' = [bakTs EXCEPT ![t] = 0]
    /\ UNCHANGED <<logKind, now, wfd, heldFd, nwrites, checked>>
    /\ UNCHANGED nonRotVars

\* what writeToLogFile does once it has logged the error of
\* CheckAndRotate: "Continue with logging even if rotation fails"
AfterRotateErrorReturn == "idle"

AfterRotateError == "open"

\* log.Printf("Failed to rotate log file: ..."): writeToLogFile goes on
\* with the write
WWarn(w) ==
    /\ rpc[w] = "warn"
    /\ rpc' = [rpc EXCEPT ![w] = AfterRotateError]
    /\ UNCHANGED <<logKind, now, dir, ino, mutex, bakTs, wfd, heldFd, nwrites,
                   checked>>
    /\ UNCHANGED nonRotVars

\* os.OpenFile(logFilePath, O_APPEND|O_CREATE|O_WRONLY)
WOpen(w) ==
    /\ rpc[w] = "open"
    /\ LET i == IF dir[Live] # 0 THEN dir[Live] ELSE FreeIno(dir, wfd, heldFd)
       IN  /\ dir' = [dir EXCEPT ![Live] = i]
           /\ ino' = IF dir[Live] # 0 THEN ino
                     ELSE [ino EXCEPT ![i] = [data |-> <<>>, gz |-> FALSE,
                                              mtime |-> now]]
           /\ wfd' = [wfd EXCEPT ![w] = i]
    /\ rpc' = [rpc EXCEPT ![w] = "write"]
    /\ UNCHANGED <<logKind, now, mutex, bakTs, heldFd, nwrites, checked>>
    /\ UNCHANGED nonRotVars

\* file.WriteString(content + "\n") and the deferred file.Close()
WWrite(w) ==
    /\ rpc[w] = "write"
    /\ ino' = Gc(dir, WriteString(ino, wfd[w], EntryLen),
                 [wfd EXCEPT ![w] = 0], heldFd)
    /\ nwrites' = nwrites + 1
    /\ wfd' = [wfd EXCEPT ![w] = 0]
    /\ rpc' = [rpc EXCEPT ![w] = "idle"]
    /\ checked' = checked
    /\ UNCHANGED <<logKind, now, dir, mutex, bakTs, heldFd>>
    /\ UNCHANGED nonRotVars

\* the relay's tee writes a chunk through logFile, the handle runProxy
\* opened at session start
HeldWrite ==
    /\ logKind = "session"
    /\ nwrites < MaxWrites
    /\ \E len \in 1..MaxChunk :
         ino' = WriteString(ino, heldFd, len)
    /\ nwrites' = nwrites + 1
    /\ checked' = checked
    /\ UNCHANGED <<logKind, now, dir, mutex, rpc, bakTs, wfd, heldFd>>
    /\ UNCHANGED nonRotVars

\* calls of writeToLogFile stop once the appends made and the calls under
\* way add up to MaxWrites
CallsBounded ==
    nwrites + Cardinality({v \in Writers : rpc[v] # "idle"}) < MaxWrites

\* the goroutines that write next to the rotate-logs command: with the
\* command they are NumWriters threads
RotWriters == 1..(NumWriters - 1)

NextRot ==
    \/ Tick
    \/ CStart
    \/ HeldWrite
    \/ \E w \in RotWriters : CallsBounded /\ WLock(w)
    \/ \E w \in RotWriters : WWarn(w) \/ WOpen(w) \/ WWrite(w)
    \/ \E t \in Threads : RStat(t) \/ RRename(t) \/ RCompress(t) \/ RPrune(t)

SpecRot == InitRot /\ [][NextRot]_vars

\* ------------------- one LogRotator instance and the goroutines that use it
\* the debug log of one process, nothing else touching it, the clock at rest
InitMutex == InitRot /\ logKind = "debug"

\* calls of writeToLogFile stop once MaxWrites appends have been made
AppendsBounded == nwrites < MaxWrites

NextMutex ==
    \/ \E w \in Writers : AppendsBounded /\ WLock(w)
    \/ \E w \in Writers : WWarn(w) \/ WOpen(w) \/ WWrite(w)
    \/ \E w \in Writers : RStat(w) \/ RRename(w) \/ RCompress(w) \/ RPrune(w)

SpecMutex == InitMutex /\ [][NextMutex]_vars

\* ------------------------------- calls on one log file, one after another
\* nothing is under way: no call of the rotator, no write
Quiet == \A t \in Threads : rpc[t] \in {"idle", "failed"}

\* the rotate-logs command, one goroutine's writeToLogFile and the relay's
\* writes, each started only when the one before has returned; a call takes
\* less than one unit of the clock, which advances between calls
NextSolo ==
    \/ Quiet /\ Tick
    \/ Quiet /\ CStart
    \/ Quiet /\ HeldWrite
    \/ \E w \in RotWriters : Quiet /\ CallsBounded /\ WLock(w)
    \/ \E w \in RotWriters : WWarn(w) \/ WOpen(w) \/ WWrite(w)
    \/ \E t \in Threads : RStat(t) \/ RRename(t) \/ RCompress(t) \/ RPrune(t)

SpecSolo == InitRot /\ [][NextSolo]_vars

\* =============================== window size of the pseudo-terminal
\* the geometries the real terminal can have
NumSizes == 2

Sizes == 1..NumSizes

\* ch := make(chan os.Signal, 1)
ChanCapUnbuffered == Len(<<>>)

ChanCap == 1

\* pty.Start has returned; the pseudo-terminal has no size yet
InitResize ==
    /\ ProxyOff /\ RelayOff /\ RotOff /\ SessOff /\ FnOff
    /\ termSize \in Sizes
    /\ ptySize = 0
    /\ sigPending = FALSE
    /\ chLen = 0
    /\ dropped = FALSE
    /\ hPc = "off"
    /\ hBuf = 0
    /\ hErr = FALSE
    /\ rMainPc = "notify"

\* SIGWINCH reaches the Go runtime's handler: from signal.Notify to
\* signal.Stop (before and after, the signal is ignored)
Notified == rMainPc \in {"go", "initial", "parked", "run"}

\* the user resizes the real terminal; the kernel sends SIGWINCH
TermResize ==
    /\ rMainPc \notin {"off", "stopped"}
    /\ \E s \in Sizes \ {termSize} : termSize' = s
    /\ sigPending' = (sigPending \/ Notified)
    /\ UNCHANGED <<ptySize, chLen, dropped, hPc, hBuf, hErr, rMainPc>>
    /\ UNCHANGED nonResizeVars

\* a send on ch that does not block: into the buffer, else to a receiver
\* that waits (the only way with no buffer), else not at all
TrySend ==
    IF chLen < ChanCap
    THEN chLen' = chLen + 1 /\ UNCHANGED hPc
    ELSE /\ ChanCap = 0 /\ hPc = "recv"
         /\ hPc' = "get" /\ UNCHANGED chLen

CanSend == chLen < ChanCap \/ (ChanCap = 0 /\ hPc = "recv")

\* os/signal hands the pending SIGWINCH to ch with a non-blocking send: a
\* full channel loses it
Deliver ==
    /\ sigPending
    /\ sigPending' = FALSE
    /\ IF Notified /\ CanSend
       THEN TrySend /\ UNCHANGED dropped
       ELSE /\ dropped' = (dropped \/ Notified)
            /\ UNCHANGED <<chLen, hPc>>
    /\ UNCHANGED <<termSize, ptySize, hBuf, hErr, rMainPc>>
    /\ UNCHANGED nonResizeVars

\* signal.Notify(ch, syscall.SIGWINCH)
RNotify ==
    /\ rMainPc = "notify"
    /\ rMainPc' = "go"
    /\ UNCHANGED <<termSize, ptySize, sigPending, chLen, dropped, hPc, hBuf,
                   hErr>>
    /\ UNCHANGED nonResizeVars

\* go func() { for range ch { ... } }()
RGo ==
    /\ rMainPc = "go"
    /\ rMainPc' = "initial"
    /\ hPc' = "recv"
    /\ UNCHANGED <<termSize, ptySize, sigPending, chLen, dropped, hBuf, hErr>>
    /\ UNCHANGED nonResizeVars

\* ch <- syscall.SIGWINCH, the initial resize: when ch is full main parks
\* as a waiting sender; then raw mode, the session log and the relay
RInitial ==
    /\ rMainPc = "initial"
    /\ IF CanSend
       THEN TrySend /\ rMainPc' = "run"
       ELSE rMainPc' = "parked" /\ UNCHANGED <<chLen, hPc>>
    /\ UNCHANGED <<termSize, ptySize, sigPending, dropped, hBuf, hErr>>
    /\ UNCHANGED nonResizeVars

\* for range ch: the handler takes a value; the value of a sender that
\* waits takes the place that comes free, and the sender goes on
HRecv ==
    /\ hPc = "recv"
    /\ chLen > 0 \/ rMainPc = "parked"
    /\ chLen' = IF rMainPc = "parked" THEN chLen ELSE chLen - 1
    /\ rMainPc' = IF rMainPc = "parked" THEN "run" ELSE rMainPc
    /\ hPc' = "get"
    /\ UNCHANGED <<termSize, ptySize, sigPending, dropped, hBuf, hErr>>
    /\ UNCHANGED nonResizeVars

\* pty.InheritSize, first half: the size of os.Stdin is read; an error is
\* logged in debug mode and the loop goes on
HGet ==
    /\ hPc = "get"
    /\ \E ok \in BOOLEAN :
         IF ok
         THEN hBuf' = termSize /\ hPc' = "set" /\ UNCHANGED hErr
         ELSE hErr' = TRUE /\ hPc' = "recv" /\ UNCHANGED hBuf
    /\ UNCHANGED <<termSize, ptySize, sigPending, chLen, dropped, rMainPc>>
    /\ UNCHANGED nonResizeVars

\* pty.InheritSize, second half: the size is set on ptmx; an error is
\* logged in debug mode and the loop goes on
HSet ==
    /\ hPc = "set"
    /\ \E ok \in BOOLEAN :
         IF ok
         THEN ptySize' = hBuf /\ hErr' = FALSE
         ELSE hErr' = TRUE /\ UNCHANGED ptySize
    /\ hBuf' = 0
    /\ hPc' = "recv"
    /\ UNCHANGED <<termSize, sigPending, chLen, dropped, rMainPc>>
    /\ UNCHANGED nonResizeVars

\* runProxy returns: defer func() { signal.Stop(ch); close(ch) }()
RStop ==
    /\ rMainPc = "run"
    /\ rMainPc' = "stopped"
    /\ UNCHANGED <<termSize, ptySize, sigPending, chLen, dropped, hPc, hBuf,
                   hErr>>
    /\ UNCHANGED nonResizeVars

\* for range ch ends on the closed, empty channel
HEnd ==
    /\ rMainPc = "stopped"
    /\ hPc = "recv"
    /\ chLen = 0
    /\ hPc' = "end"
    /\ UNCHANGED <<termSize, ptySize, sigPending, chLen, dropped, hBuf, hErr,
                   rMainPc>>
    /\ UNCHANGED nonResizeVars

NextResize ==
    \/ TermResize \/ Deliver
    \/ RNotify \/ RGo \/ RInitial \/ RStop
    \/ HRecv \/ HGet \/ HSet \/ HEnd

\* the Go scheduler runs every goroutine that can take a step, and the
\* runtime passes on every signal it holds; resizes and the end of the
\* proxy come when they come
ResizeFairness ==
    /\ WF_vars(Deliver) /\ WF_vars(RNotify) /\ WF_vars(RGo)
    /\ WF_vars(RInitial) /\ WF_vars(HRecv) /\ WF_vars(HGet) /\ WF_vars(HSet)

SpecResize == InitResize /\ [][NextResize]_vars /\ ResizeFairness

\* ============================================ session identity (SpecId)
\* longest --session-id / SMART_SUGGESTION_SESSION_ID value
MaxIdLen == 2

\* longest terminal device path ($TTY, or what the tty command prints)
MaxTtyLen == 2

\* bytes generateSessionID reads from crypto/rand (8 in the code)
RandLen == 1

\* characters an explicit session id is made of
IdAlphabet == {"a", "/", "."}

\* characters a terminal device path is made of
TtyAlphabet == {"p", "/", ".", ":"}

\* values of a random byte
ByteValues == {0, 171}

StringsUpTo(alphabet, n) == UNION {[1..k -> alphabet] : k \in 0..n}

IdStrings == StringsUpTo(IdAlphabet, MaxIdLen)

TtyStrings == StringsUpTo(TtyAlphabet, MaxTtyLen)

\* exec.Command("tty").Output(): an error, or the device path and a newline
TtyOutputs == {NoTty} \cup {[err |-> FALSE, out |-> s \o <<"\n">>] : s \in TtyStrings \ {<<>>}}

RandomBytes == [1..RandLen -> ByteValues]

HexDigits == <<"0", "1", "2", "3", "4", "5", "6", "7", "8", "9",
               "a", "b", "c", "d", "e", "f">>

\* hex.EncodeToString
RECURSIVE EncodeToString(_)
EncodeToString(bytes) ==
    IF bytes = <<>> THEN <<>>
    ELSE <<HexDigits[(Head(bytes) \div 16) + 1], HexDigits[(Head(bytes) % 16) + 1]>>
         \o EncodeToString(Tail(bytes))

\* strings.Split(s, "/")
RECURSIVE Split(_)
Split(s) ==
    IF \A i \in 1..Len(s) : s[i] # "/" THEN <<s>>
    ELSE LET i == CHOOSE j \in 1..Len(s) : s[j] = "/" /\ \A k \in 1..(j - 1) : s[k] # "/"
         IN  <<SubSeq(s, 1, i - 1)>> \o Split(SubSeq(s, i + 1, Len(s)))

\* parts[len(parts)-1]
LastPart(s) == Split(s)[Len(Split(s))]

\* strings.ReplaceAll(s, old, new) for one-character old and new
ReplaceAll(s, old, new) == [i \in 1..Len(s) |-> IF s[i] = old THEN new ELSE s[i]]

\* generateSessionID without the error: "%d_%d_%s" of pid, Unix time, hex
GenerateSessionID(pid, timestamp, randomBytes) ==
    Itoa(pid) \o <<"_">> \o Itoa(timestamp) \o <<"_">> \o EncodeToString(randomBytes)

GetTTYName(envTTY, tty) ==
    IF envTTY # <<>>
    THEN ReplaceAll(LastPart(envTTY), ".", "_")
    ELSE IF ~tty.err
         THEN ReplaceAll(ReplaceAll(LastPart(TrimSpace(tty.out)), ".", "_"), ":", "_")
         ELSE <<>>

PidID(pid) == <<"p", "i", "d", "_">> \o Itoa(pid)

GetCurrentSessionID(envID, envTTY, tty, pid) ==
    IF envID # <<>> THEN envID
    ELSE IF GetTTYName(envTTY, tty) # <<>> THEN GetTTYName(envTTY, tty)
    ELSE PidID(pid)

\* what a resolution gives: the id, or the process ended by os.Exit(1)
Resolved(id) == [id |-> id, exited |-> FALSE]

ExitedUnresolved == [id |-> <<>>, exited |-> TRUE]

\* runProxy, lines 1358-1372: the --session-id flag, else generateSessionID
RunProxySessionID(flagID, pid, randOK, timestamp, randomBytes) ==
    IF flagID # <<>> THEN Resolved(flagID)
    ELSE IF randOK THEN Resolved(GenerateSessionID(pid, timestamp, randomBytes))
    ELSE ExitedUnresolved

InitId ==
    ProxyOff /\ RelayOff /\ RotOff /\ IdInit /\ PathOff /\ SweepOff /\ ResizeOff /\ FnOff

\* a shell-side caller (the context gatherer) resolves its session id
CallGetCurrentSessionID ==
    /\ idCall.fn = "none"
    /\ \E p \in Procs, envID \in IdStrings, envTTY \in TtyStrings, tty \in TtyOutputs :
         /\ idCall' = [fn |-> "getCurrentSessionID", pid |-> Pid(p), override |-> envID,
                       envTTY |-> envTTY, tty |-> tty]
         /\ idOut' = <<Resolved(GetCurrentSessionID(envID, envTTY, tty, Pid(p)))>>
    /\ UNCHANGED <<pathVars, sweepVars>>
    /\ UNCHANGED nonSessVars

\* a proxy invocation resolves its session id, in a terminal whose device
\* $TTY and the tty command report
CallRunProxy ==
    /\ idCall.fn = "none"
    /\ \E p \in Procs, flagID \in IdStrings, envTTY \in TtyStrings, tty \in TtyOutputs,
          randOK \in BOOLEAN, timestamp \in 0..MaxTime, randomBytes \in RandomBytes :
         /\ idCall' = [fn |-> "runProxy", pid |-> Pid(p), override |-> flagID,
                       envTTY |-> envTTY, tty |-> tty]
         /\ idOut' = <<RunProxySessionID(flagID, Pid(p), randOK, timestamp, randomBytes)>>
    /\ UNCHANGED <<pathVars, sweepVars>>
    /\ UNCHANGED nonSessVars

\* the same caller resolves once more, in the same terminal with the same
\* override
ResolveAgain ==
    /\ idCall.fn # "none"
    /\ Len(idOut) = 1
    /\ ~idOut[1].exited
    /\ IF idCall.fn = "getCurrentSessionID"
       THEN idOut' = Append(idOut, Resolved(GetCurrentSessionID(idCall.override,
                                       idCall.envTTY, idCall.tty, idCall.pid)))
       ELSE \E randOK \in BOOLEAN, timestamp \in 0..MaxTime, randomBytes \in RandomBytes :
              idOut' = Append(idOut, RunProxySessionID(idCall.override, idCall.pid,
                                                       randOK, timestamp, randomBytes))
    /\ UNCHANGED <<idCall, pathVars, sweepVars>>
    /\ UNCHANGED nonSessVars

NextId == CallGetCurrentSessionID \/ CallRunProxy \/ ResolveAgain

SpecId == InitId /\ [][NextId]_vars

\* ======================================= session file paths (SpecPaths)
\* longest base log path
MaxPathLen == 4

\* characters a base log path is made of
PathAlphabet == {"t", "/", "."}

BasePaths == StringsUpTo(PathAlphabet, MaxPathLen)

\* "/tmp/smart-suggestion-proxy.lock", shortened
LockBase == <<"/", "t", "/", "k", ".", "l">>

\* index of the last c in s, 0 when there is none
LastIndex(s, c) ==
    IF \E i \in 1..Len(s) : s[i] = c
    THEN CHOOSE i \in 1..Len(s) : s[i] = c /\ \A j \in (i + 1)..Len(s) : s[j] # c
    ELSE 0

RECURSIVE JoinSlash(_)
JoinSlash(parts) ==
    IF parts = <<>> THEN <<>>
    ELSE IF Len(parts) = 1 THEN parts[1]
    ELSE parts[1] \o <<"/">> \o JoinSlash(Tail(parts))

\* filepath.Clean, element by element: empty and "." elements go, ".."
\* takes the element before it away, or goes at the root, or stays
RECURSIVE CleanParts(_, _, _)
CleanParts(parts, out, rooted) ==
    IF parts = <<>> THEN out
    ELSE LET e    == Head(parts)
             rest == Tail(parts)
         IN  IF e = <<>> \/ e = <<".">> THEN CleanParts(rest, out, rooted)
             ELSE IF e = <<".", ".">>
                  THEN IF out # <<>> /\ out[Len(out)] # <<".", ".">>
                       THEN CleanParts(rest, SubSeq(out, 1, Len(out) - 1), rooted)
                       ELSE IF rooted THEN CleanParts(rest, out, rooted)
                       ELSE CleanParts(rest, Append(out, e), rooted)
                  ELSE CleanParts(rest, Append(out, e), rooted)

Clean(path) ==
    IF path = <<>> THEN <<".">>
    ELSE LET rooted == path[1] = "/"
             body   == JoinSlash(CleanParts(Split(path), <<>>, rooted))
         IN  IF rooted THEN <<"/">> \o body
             ELSE IF body = <<>> THEN <<".">> ELSE body

\* filepath.Dir
Dir(path) == Clean(SubSeq(path, 1, LastIndex(path, "/")))

RECURSIVE StripTrailingSlashes(_)
StripTrailingSlashes(path) ==
    IF path # <<>> /\ path[Len(path)] = "/"
    THEN StripTrailingSlashes(SubSeq(path, 1, Len(path) - 1))
    ELSE path

\* filepath.Base
Base(path) ==
    IF path = <<>> THEN <<".">>
    ELSE LET p == StripTrailingSlashes(path)
             q == SubSeq(p, LastIndex(p, "/") + 1, Len(p))
         IN  IF q = <<>> THEN <<"/">> ELSE q

\* filepath.Ext
Ext(path) ==
    IF LastIndex(path, ".") > LastIndex(path, "/")
    THEN SubSeq(path, LastIndex(path, "."), Len(path))
    ELSE <<>>

HasSuffix(s, suffix) ==
    Len(s) >= Len(suffix) /\ SubSeq(s, Len(s) - Len(suffix) + 1, Len(s)) = suffix

HasPrefix(s, prefix) == Len(s) >= Len(prefix) /\ SubSeq(s, 1, Len(prefix)) = prefix

\* strings.TrimSuffix
TrimSuffix(s, suffix) ==
    IF HasSuffix(s, suffix) THEN SubSeq(s, 1, Len(s) - Len(suffix)) ELSE s

\* filepath.Join of two elements
Join(dir0, name) ==
    IF dir0 = <<>> /\ name = <<>> THEN <<>>
    ELSE IF dir0 = <<>> THEN Clean(name)
    ELSE IF name = <<>> THEN Clean(dir0)
    ELSE Clean(dir0 \o <<"/">> \o name)

\* base name without its extension, as both path functions and the sweep
\* compute it
Stem(path) == TrimSuffix(Base(path), Ext(Base(path)))

\* fmt.Sprintf("%s.%s%s", base, sessionID, ext)
SessionFileName(path, sessionID) ==
    Stem(path) \o <<".">> \o sessionID \o Ext(Base(path))

GetSessionBasedLogFile(baseLogFile, sessionID) ==
    IF sessionID = <<>> THEN baseLogFile
    ELSE Join(Dir(baseLogFile), SessionFileName(baseLogFile, sessionID))

GetSessionBasedLockFile(baseLockFile, sessionID) ==
    IF sessionID = <<>> THEN baseLockFile
    ELSE Join(Dir(baseLockFile), SessionFileName(baseLockFile, sessionID))

InitPaths ==
    /\ ProxyOff /\ RelayOff /\ RotOff /\ IdInit /\ SweepOff /\ ResizeOff /\ FnOff
    /\ pathIn \in [base : BasePaths, ids : {<<>>}]
    /\ pathOut = <<>>

\* runProxy, lines 1375-1376, of one more proxy started with --log-file
\* pathIn.base and session id sessionID
SessionPaths ==
    /\ Len(pathOut) < 2
    /\ \E sessionID \in IdStrings :
         /\ pathIn' = [pathIn EXCEPT !.ids = Append(@, sessionID)]
         /\ pathOut' = Append(pathOut,
                [log  |-> GetSessionBasedLogFile(pathIn.base, sessionID),
                 lock |-> GetSessionBasedLockFile(LockBase, sessionID)])
    /\ UNCHANGED <<idVars, sweepVars>>
    /\ UNCHANGED nonSessVars

NextPaths == SessionPaths

SpecPaths == InitPaths /\ [][NextPaths]_vars

\* ================================ sweep of old session logs (SpecSweep)
\* most entries of the log directory
MaxEntries == 3

\* the 24 hours runProxy passes as maxAge, in clock ticks
SweepMaxAge == 1

\* --log-file values the sweep is run for: with and without an extension
SweepBases == {<<"/", "t", "/", "p", ".", "l">>, <<"/", "t", "/", "p">>}

\* names that may be in the log directory
SweepNames == {<<"p", ".", "l">>, <<"p">>, <<"p", ".", "a", ".", "l">>,
               <<"p", ".", "b", ".", "l">>, <<"p", ".", ".", "l">>,
               <<"p", "a", ".", "l">>, <<"p", ".", "a">>}

Absent == [kind |-> "absent", mtime |-> 0]

Subdir == [kind |-> "dir", mtime |-> 0]

File(mtime) == [kind |-> "file", mtime |-> mtime]

EntryStates == {Absent, Subdir} \cup {File(t) : t \in 0..MaxTime}

\* filepath.Match for a pattern of literal characters and "*"
RECURSIVE Match(_, _)
Match(pattern, name) ==
    IF pattern = <<>> THEN name = <<>>
    ELSE IF Head(pattern) = "*"
         THEN \/ Match(Tail(pattern), name)
              \/ name # <<>> /\ Head(name) # "/" /\ Match(pattern, Tail(name))
         ELSE name # <<>> /\ Head(name) = Head(pattern) /\ Match(Tail(pattern), Tail(name))

\* fmt.Sprintf("%s.*%s", base, ext)
SweepPattern(baseLogPath) == Stem(baseLogPath) \o <<".", "*">> \o Ext(Base(baseLogPath))

\* info.ModTime().Before(cutoff), cutoff being time.Now().Add(-maxAge) and
\* the sweep running at the last instant of the clock
BeforeCutoff(mtime, maxAge) == mtime < MaxTime - maxAge

\* the entries the loop of cleanupOldSessionLogs gets to os.Remove
SweepTargets(baseLogPath, maxAge, d, statFails) ==
    {n \in SweepNames :
        /\ d[n].kind = "file"
        /\ Match(SweepPattern(baseLogPath), n)
        /\ n # Base(baseLogPath)
        /\ n \notin statFails
        /\ BeforeCutoff(d[n].mtime, maxAge)}

InitSweep ==
    /\ ProxyOff /\ RelayOff /\ RotOff /\ IdInit /\ PathOff /\ ResizeOff /\ FnOff
    /\ sweepBase \in SweepBases
    /\ sdir0 \in {d \in [SweepNames -> EntryStates] :
                    Cardinality({n \in SweepNames : d[n] # Absent}) <= MaxEntries}
    /\ sdir = sdir0
    /\ sweepResult = "none"
    /\ sweepErrs = FALSE

\* cleanupOldSessionLogs(sweepBase, 24h) from os.ReadDir to its return;
\* os.ReadDir may fail, and os.Stat or os.Remove may fail for an entry
CleanupOldSessionLogs ==
    /\ sweepResult = "none"
    /\ \E readDirOK \in BOOLEAN, failing \in {{}} \cup {{n} : n \in SweepNames},
          failsIn \in {"stat", "remove"} :
         IF ~readDirOK
         THEN /\ sweepResult' = "err"
              /\ UNCHANGED <<sdir, sweepErrs>>
         ELSE LET statFails == IF failsIn = "stat" THEN failing ELSE {}
                  targets   == SweepTargets(sweepBase, SweepMaxAge, sdir, statFails)
                  removed   == IF failsIn = "remove" THEN targets \ failing ELSE targets
              IN  /\ sdir' = [n \in SweepNames |-> IF n \in removed THEN Absent ELSE sdir[n]]
                  /\ sweepErrs' = (removed # SweepTargets(sweepBase, SweepMaxAge, sdir, {}))
                  /\ sweepResult' = "ok"
    /\ UNCHANGED <<sweepBase, sdir0, idVars, pathVars>>
    /\ UNCHANGED nonSessVars

NextSweep == CleanupOldSessionLogs

SpecSweep == InitSweep /\ [][NextSweep]_vars

\* ================= cleanupOldBackups on a directory of names (SpecPrune)
\* the timestamp of a backup name, scaled down to one digit
Timestamps == {<<"1">>}

GzExt == <<".", "g", "z">>

\* names that may be in the log directory: the log p.l, a backup of it and
\* its compressed form, the log p-q.l of another program, a backup of that,
\* the session log of p-q.l for session a, and an unrelated file
PruneNames == {<<"p", ".", "l">>,
               <<"p", "-", "1", ".", "l">>,
               <<"p", "-", "1", ".", "l", ".", "g", "z">>,
               <<"p", "-", "q", ".", "l">>,
               <<"p", "-", "q", "-", "1", ".", "l">>,
               <<"p", "-", "q", ".", "a", ".", "l">>,
               <<"q", ".", "l">>}

\* fmt.Sprintf("%s-%s%s", name, timestamp, ext), and the same plus ".gz"
BackupName(logFilePath, timestamp) ==
    Stem(logFilePath) \o <<"-">> \o timestamp \o Ext(Base(logFilePath))

\* the names rotateFile gives to backups of logFilePath
BackupsOf(logFilePath) ==
    {BackupName(logFilePath, ts) : ts \in Timestamps}
       \cup {BackupName(logFilePath, ts) \o GzExt : ts \in Timestamps}

\* fmt.Sprintf("%s-*%s*", name, ext)
BackupPattern(logFilePath) ==
    Stem(logFilePath) \o <<"-", "*">> \o Ext(Base(logFilePath)) \o <<"*">>

\* the matches of filepath.Glob the loop goes on with: not the log itself,
\* os.Stat succeeded
Matches(logFilePath, d, statFails) ==
    {n \in PruneNames :
        /\ d[n] # Absent
        /\ Match(BackupPattern(logFilePath), n)
        /\ n # Base(logFilePath)
        /\ n \notin statFails}

InitPrune ==
    /\ ProxyOff /\ RelayOff /\ RotOff /\ IdInit /\ PathOff /\ ResizeOff /\ FnOff
    /\ sweepBase \in SweepBases
    /\ sdir0 \in {d \in [PruneNames -> {Absent} \cup {File(t) : t \in 0..MaxTime}] :
                    Cardinality({n \in PruneNames : d[n] # Absent}) <= MaxEntries}
    /\ sdir = sdir0
    /\ sweepResult = "none"
    /\ sweepErrs = FALSE

\* cleanupOldBackups(sweepBase) at time MaxTime: the matches older than
\* MaxAge are removed, then all but the MaxBackups newest of the others
CleanupOldBackups ==
    /\ sweepResult = "none"
    /\ \E statFails \in SUBSET Matches(sweepBase, sdir, {}) :
         LET found   == Matches(sweepBase, sdir, statFails)
             expired == {n \in found :
                            BeforeCutoff(sdir[n].mtime, MaxAge * SecondsPerDay)}
             backups == found \ expired
         IN  \E keep \in SUBSET backups :
               /\ Cardinality(keep) = Min(MaxBackups, Cardinality(backups))
               /\ \A k \in keep, x \in backups \ keep :
                     ~After(sdir[x].mtime, sdir[k].mtime)
               /\ sdir' = [n \in PruneNames |->
                             IF n \in expired \cup (backups \ keep)
                             THEN Absent ELSE sdir[n]]
               /\ sweepErrs' = (statFails # {})
    /\ sweepResult' = "ok"
    /\ UNCHANGED <<sweepBase, sdir0, idVars, pathVars>>
    /\ UNCHANGED nonSessVars

NextPrune == CleanupOldBackups

SpecPrune == InitPrune /\ [][NextPrune]_vars

\* ============ the session id seen from inside the proxy's shell (SpecChild)
\* a shell started without the proxy's variable in its environment
ChildEnvNotExported(sessionID) == <<>>

\* os.Setenv("SMART_SUGGESTION_SESSION_ID", sessionID) before
\* pty.Start(exec.Command(shell)): the value of the variable in the
\* environment the child shell inherits
ChildEnv(sessionID) == sessionID

\* the terminal a process inside the shell sees: $TTY set, or the tty
\* command asked
ChildTerminals == (TtyStrings \X {NoTty}) \cup ({<<>>} \X TtyOutputs)

InitChild ==
    /\ ProxyOff /\ RelayOff /\ RotOff /\ IdInit /\ SweepOff /\ ResizeOff /\ FnOff
    /\ pathIn \in [base : SweepBases, ids : {<<>>}]
    /\ pathOut = <<>>

\* runProxy from the resolution of its session id to pty.Start: the id, the
\* session log path it writes to and the lock path
ProxySpawnsShell ==
    /\ idCall.fn = "none"
    /\ \E p \in Procs, flagID \in IdStrings, randOK \in BOOLEAN,
          timestamp \in 0..MaxTime, randomBytes \in RandomBytes :
         LET r == RunProxySessionID(flagID, Pid(p), randOK, timestamp, randomBytes)
         IN  /\ idCall' = [fn |-> "runProxy", pid |-> Pid(p), override |-> flagID,
                           envTTY |-> <<>>, tty |-> NoTty]
             /\ idOut' = <<r>>
             /\ pathIn' = [pathIn EXCEPT !.ids = IF r.exited THEN @ ELSE <<r.id>>]
             /\ pathOut' = IF r.exited THEN <<>>
                           ELSE <<[log  |-> GetSessionBasedLogFile(pathIn.base, r.id),
                                   lock |-> GetSessionBasedLockFile(LockBase, r.id)]>>
    /\ UNCHANGED sweepVars
    /\ UNCHANGED nonSessVars

\* getShellBuffer of a context-gathering call made inside that shell, with
\* the same base log path: getCurrentSessionID and getSessionBasedLogFile
CallFromShell ==
    /\ idCall.fn = "runProxy"
    /\ Len(idOut) = 1
    /\ ~idOut[1].exited
    /\ \E term \in ChildTerminals :
         LET id == GetCurrentSessionID(ChildEnv(idOut[1].id), term[1], term[2],
                                       idCall.pid + 1)
         IN  /\ idOut' = Append(idOut, Resolved(id))
             /\ pathIn' = [pathIn EXCEPT !.ids = Append(@, id)]
             /\ pathOut' = Append(pathOut,
                    [log  |-> GetSessionBasedLogFile(pathIn.base, id),
                     lock |-> GetSessionBasedLockFile(LockBase, id)])
    /\ UNCHANGED <<idCall, sweepVars>>
    /\ UNCHANGED nonSessVars

NextChild == ProxySpawnsShell \/ CallFromShell

SpecChild == InitChild /\ [][NextChild]_vars

\* ================== the context gatherer's read of a proxy log (SpecTail)
\* longest proxy log of the model, in bytes
MaxLogLen == 4

\* const maxLines = 50, scaled down
maxLines == 2

\* bufio.MaxScanTokenSize (64 * 1024), the buffer limit of the
\* bufio.NewScanner the function reads with, scaled down
MaxScanTokenSize == 3

\* bytes of a log: a printable byte, carriage return, line feed
LogAlphabet == {"a", "\r", "\n"}

LogTexts == StringsUpTo(LogAlphabet, MaxLogLen)

\* the pieces between line feeds, a last piece without line feed included
\* when it is not empty (what bufio.ScanLines finds before it drops "\r")
RECURSIVE RawLines(_, _, _)
RawLines(s, cur, out) ==
    IF s = <<>> THEN (IF cur = <<>> THEN out ELSE Append(out, cur))
    ELSE IF Head(s) = "\n" THEN RawLines(Tail(s), <<>>, Append(out, cur))
    ELSE RawLines(Tail(s), Append(cur, Head(s)), out)

\* bufio's dropCR
DropCR(line) ==
    IF line # <<>> /\ line[Len(line)] = "\r" THEN SubSeq(line, 1, Len(line) - 1)
    ELSE line

\* scanner.Text() of each line of the file
Lines(data) == [i \in 1..Len(RawLines(data, <<>>, <<>>)) |->
                  DropCR(RawLines(data, <<>>, <<>>)[i])]

\* Scanner.Scan gives up with bufio.ErrTooLong when the buffer is full and
\* holds no line feed
TooLong(raw) == Len(raw) >= MaxScanTokenSize

\* lines = append(lines, ...); if len(lines) > maxLines { lines = lines[1:] }
LastLines(lines, n) ==
    IF Len(lines) > n THEN SubSeq(lines, Len(lines) - n + 1, Len(lines)) ELSE lines

\* strings.Join(lines, "\n")
RECURSIVE JoinNewline(_)
JoinNewline(lines) ==
    IF lines = <<>> THEN <<>>
    ELSE IF Len(lines) = 1 THEN lines[1]
    ELSE lines[1] \o <<"\n">> \o JoinNewline(Tail(lines))

ReadFailed == [called |-> TRUE, err |-> TRUE, text |-> <<>>]

ReadLatestProxyContent(file) ==
    IF ~file.exists THEN ReadFailed
    ELSE IF \E i \in 1..Len(RawLines(file.data, <<>>, <<>>)) :
               TooLong(RawLines(file.data, <<>>, <<>>)[i])
    THEN ReadFailed
    ELSE [called |-> TRUE, err |-> FALSE,
          text |-> JoinNewline(LastLines(Lines(file.data), maxLines))]

InitTail ==
    /\ ProxyOff /\ RelayOff /\ RotOff /\ SessOff /\ ResizeOff /\ SizeOff
    /\ logFile \in {NoFile} \cup {[exists |-> TRUE, data |-> s] : s \in LogTexts}
    /\ tailOut = NotCalled
    /\ ctxOut = NoContext

\* getShellBuffer, outside tmux and kitty, reads the session's proxy log
CallReadLatestProxyContent ==
    /\ ~tailOut.called
    /\ tailOut' = ReadLatestProxyContent(logFile)
    /\ UNCHANGED <<logFile, ctxOut, sizeVars>>
    /\ UNCHANGED nonFnVars

\* the rest of getShellBuffer and its caller buildContextInfo: after a
\* failed read the base proxy log, screen and tput are tried; an error of
\* getShellBuffer is logged and the context goes without a shell buffer
BuildContextInfo ==
    /\ tailOut.called
    /\ ~ctxOut.called
    /\ \E fallbackOK \in BOOLEAN :
         ctxOut' = [called |-> TRUE, err |-> FALSE,
                    hasBuffer |-> ~tailOut.err \/ fallbackOK]
    /\ UNCHANGED <<logFile, tailOut, sizeVars>>
    /\ UNCHANGED nonFnVars

NextTail == CallReadLatestProxyContent \/ BuildContextInfo

SpecTail == InitTail /\ [][NextTail]_vars

\* ================================= the size parser (SpecSize)
\* longest size string of the model
MaxSizeStrLen == 4

\* width of the result type int64, scaled down
IntBits == 8

\* the factor 1024 between the units, scaled down
Kilo == 2

SizeAlphabet == {"1", "9", "k", "K", "M", "G", "B", " "}

SizeStrings == StringsUpTo(SizeAlphabet, MaxSizeStrLen)

\* strings.ToUpper on the letters of the model
ToUpper(s) == [i \in 1..Len(s) |-> IF s[i] = "k" THEN "K" ELSE s[i]]

MaxInt == 2 ^ (IntBits - 1) - 1

MinInt == 0 - 2 ^ (IntBits - 1)

\* the two's complement value the machine keeps of n
Wrap(n) == ((n - MinInt) % (2 ^ IntBits)) + MinInt

\* a product of unbounded integers
MulExact(a, b) == a * b

\* Go's * on int64: the product modulo 2^64, no overflow check
Mul(a, b) == Wrap(a * b)

\* text strconv.ParseInt(_, 10, 64) takes as a decimal integer: an optional
\* sign and one digit or more
IsDecimal(s) ==
    LET digits == IF s # <<>> /\ Head(s) \in {"+", "-"} THEN Tail(s) ELSE s
    IN  digits # <<>> /\ \A i \in 1..Len(digits) : IsDigit(digits[i])

\* the number a decimal text denotes
DecimalValue(s) ==
    IF Head(s) = "-" THEN 0 - AtoiDigits(Tail(s), 0)
    ELSE IF Head(s) = "+" THEN AtoiDigits(Tail(s), 0)
    ELSE AtoiDigits(s, 0)

\* strconv.ParseInt(s, 10, 64): a syntax error, or a range error when the
\* value does not fit
ParseInt(s) ==
    IF ~IsDecimal(s) THEN [err |-> TRUE, n |-> 0]
    ELSE IF DecimalValue(s) > MaxInt \/ DecimalValue(s) < MinInt
    THEN [err |-> TRUE, n |-> 0]
    ELSE [err |-> FALSE, n |-> DecimalValue(s)]

\* the suffix ParseSizeString goes by, first match in the order of its tests
Suffix(u) ==
    IF HasSuffix(u, <<"K", "B">>) THEN <<"K", "B">>
    ELSE IF HasSuffix(u, <<"M", "B">>) THEN <<"M", "B">>
    ELSE IF HasSuffix(u, <<"G", "B">>) THEN <<"G", "B">>
    ELSE IF HasSuffix(u, <<"B">>) THEN <<"B">>
    ELSE <<>>

Multiplier(suffix) ==
    IF suffix = <<"K", "B">> THEN Kilo
    ELSE IF suffix = <<"M", "B">> THEN Kilo * Kilo
    ELSE IF suffix = <<"G", "B">> THEN Kilo * Kilo * Kilo
    ELSE 1

ParseSizeString(sizeStr) ==
    LET u == ToUpper(TrimSpace(sizeStr))
        num == ParseInt(TrimSuffix(u, Suffix(u)))
    IN  IF num.err THEN [called |-> TRUE, err |-> TRUE, n |-> 0]
        ELSE [called |-> TRUE, err |-> FALSE, n |-> Mul(num.n, Multiplier(Suffix(u)))]

InitSize ==
    /\ ProxyOff /\ RelayOff /\ RotOff /\ SessOff /\ ResizeOff /\ TailOff
    /\ sizeIn \in SizeStrings
    /\ sizeOut = NoSize

CallParseSizeString ==
    /\ ~sizeOut.called
    /\ sizeOut' = ParseSizeString(sizeIn)
    /\ UNCHANGED <<sizeIn, tailVars>>
    /\ UNCHANGED nonFnVars

NextSize == CallParseSizeString

SpecSize == InitSize /\ [][NextSize]_vars

\* ================================================================== claims
\* the text of the lock file names a process that exists
LiveRecorded ==
    lockIno # 0 /\ SignalZeroOK(Atoi(TrimSpace(lockData[lockIno])))

\* a lock file is there and its text names no process that exists
StaleRecorded ==
    lockIno # 0 /\ ~SignalZeroOK(Atoi(TrimSpace(lockData[lockIno])))

\* process p takes a step of its own code (not the delivery of a signal)
Steps(p) == pc'[p] # pc[p] /\ pc'[p] # "killed"

\* text is a decimal number n followed by one newline
IsDecimalLine(text, n) ==
    /\ Len(text) >= 2
    /\ text[Len(text)] = "\n"
    /\ text[1] # "0"
    /\ Atoi(SubSeq(text, 1, Len(text) - 1)) = n

\* C1: at most one live process has returned successfully from
\* createProcessLock on the session's lock path without yet having
\* released it, under every interleaving of the steps.
C1_AtMostOneHolder == Cardinality({p \in Procs : pc[p] \in Holding}) <= 1

\* C2: whenever a proxy that acquired the lock terminates (return from
\* runProxy, os.Exit on a fatal error, SIGINT/SIGTERM), the session's lock
\* file no longer exists.
C2_TerminationRemovesLock ==
    [][\A p \in Procs :
         (pc[p] \in Holding /\ (pc'[p] = "exited" \/ Signal(p)))
             => lockIno' = 0]_vars

\* C3: while the lock file records the pid of a live process, every step of
\* createProcessLock leaves the lock file as it is and leads to the error
\* return; runProxy then exits with status 1; and no step of the call or of
\* the failure path spawns a shell or deletes, creates or writes the session
\* log.
C3_LiveHolderBlocks ==
    [][\A p \in Procs :
         /\ (pc[p] = "create1" /\ LiveRecorded /\ Steps(p))
               => (pc'[p] = "read" /\ lockFs' = lockFs)
         /\ (pc[p] = "read" /\ LiveRecorded /\ Steps(p))
               => (pc'[p] = "signal" /\ lockFs' = lockFs)
         /\ (pc[p] = "signal" /\ SignalZeroOK(probePid[p]) /\ Steps(p))
               => (pc'[p] = "lockfail" /\ lockFs' = lockFs)
         /\ (pc[p] = "lockfail" /\ Steps(p))
               => (pc'[p] = "exited" /\ exitCode'[p] = 1
                   /\ <<lockIno, lockData>>' = <<lockIno, lockData>>)
         /\ (pc[p] \in {"create1", "read", "signal", "lockfail"} /\ Steps(p))
               => (shell'[p] = "none" /\ logOpen'[p] = 0
                   /\ sessionLog' = sessionLog)]_vars

\* C3 witness: p is on the error return while another, live process holds
\* the lock and the file carries that holder's pid
C3_Witness ==
    \E p, q \in Procs :
        /\ p # q /\ pc[p] = "lockfail" /\ pc[q] \in Holding
        /\ lockIno = q /\ IsDecimalLine(lockData[q], Pid(q))

C5_LogEqualsShellOutput ==
    mainPc = "exited" => slogData = Bytes(0, ptyWritten)

\* C6: at every moment the session log is a prefix of the bytes read from
\* the pseudo-terminal and of the bytes already written to the terminal
\* output; and the log only ever grows by (part of) the chunk in hand, in
\* a write step of the pty-to-output relay.
C6_LogIsOrderedPrefix ==
    /\ [](/\ IsPrefix(slogData, Bytes(0, ptyRead))
          /\ IsPrefix(slogData, stdoutData))
    /\ [][slogData' # slogData =>
            /\ outPc \in {"w1", "w2"} /\ outPc' # outPc
            /\ \E k \in 1..Len(buf) : slogData' = slogData \o SubSeq(buf, 1, k)
            /\ UNCHANGED <<mainPc, inPc>>]_vars

\* C6 witness: a second chunk is on the terminal and not yet in the log
C6_Witness ==
    /\ outPc = "w2" /\ slogData # <<>> /\ buf # <<>>
    /\ stdoutData = slogData \o buf

\* a step of the relay that appends a chunk to the session log
SessionWrite == logKind = "session" /\ nwrites' > nwrites

\* a step in which writer w's writeToLogFile appends its entry
EntryWrite(w) == rpc[w] = "write" /\ rpc'[w] = "idle"

\* a step in which thread t's rotateFile returns after pruning
RotationCompletes(t) == rpc[t] = "prune" /\ rpc'[t] # "prune"

RotationInProgress(t) == rpc[t] \in {"stat", "rename", "compress", "prune"}

\* C7: every write of shell output to the session log is preceded by a
\* CheckAndRotate call on the session log's path.
C7_SessionWriteChecked == [][SessionWrite => checked]_vars

\* C8: a log file the program appends to (session log, debug log) never
\* exceeds MaxSize by more than the length of one write: right after an
\* append of k bytes the live file holds at most MaxSize + k bytes.
C8_SizeWithinOneWrite ==
    [][\A i \in Inodes :
          (dir[Live] = i /\ Len(ino'[i].data) > Len(ino[i].data))
             => Len(ino'[i].data)
                   <= MaxSize + (Len(ino'[i].data) - Len(ino[i].data))]_vars

C10_NoWriteLost ==
    [][/\ \A w \in Writers : EntryWrite(w) => wfd[w] \in Range(dir')
       /\ SessionWrite => heldFd \in Range(dir')]_vars

\* a step in which thread t's rotateFile renames the live log
RenameStep(t) == rpc[t] = "rename" /\ rpc'[t] # "rename"

\* C11: CheckAndRotate and ForceRotate of one LogRotator are serialized by
\* its mutex: never are two goroutines between the stat and the end of
\* rename/compress/prune, and the rename of a rotation never executes while
\* another goroutine's write through the same rotator is under way (file
\* opened, entry not yet written).
C11_RotationSerialized ==
    /\ [](Cardinality({w \in Writers : RotationInProgress(w)}) <= 1)
    /\ [][\A t \in Writers :
             RenameStep(t) => \A w \in Writers \ {t} : rpc[w] # "write"]_vars

\* a step of thread t out of the os.Stat of its call that is not an error
\* return
StatSucceeds(t) ==
    rpc[t] = "stat" /\ rpc'[t] \notin {"stat", "warn", "failed"}

\* a step in which the os.Rename of thread t's rotateFile succeeds
RenameSucceeds(t) == rpc[t] = "rename" /\ rpc'[t] \in {"compress", "prune"}

\* the live file is there and holds at least MaxSize bytes
AtThreshold == dir[Live] # 0 /\ Len(ino[dir[Live]].data) >= MaxSize

\* C21: CheckAndRotate returns success and creates, renames or deletes no
\* file when the path is absent or the file is smaller than MaxSize; at
\* MaxSize or more it goes on to rename the live file to the backup name
\* stamped with the current time, after which the live path is gone and
\* the backup name holds the very file.  ForceRotate does the same for
\* every existing file, whatever its size.
C21_RotatesAtThreshold ==
    [][/\ \A w \in Writers :
            /\ (StatSucceeds(w) /\ ~AtThreshold)
                  => (rpc'[w] = "open" /\ UNCHANGED <<dir, ino>>)
            /\ (StatSucceeds(w) /\ AtThreshold)
                  => (rpc'[w] = "rename" /\ bakTs'[w] = now
                      /\ UNCHANGED <<dir, ino>>)
       /\ (StatSucceeds(Cmd) /\ dir[Live] = 0)
             => (rpc'[Cmd] = "idle" /\ UNCHANGED <<dir, ino>>)
       /\ (StatSucceeds(Cmd) /\ dir[Live] # 0)
             => (rpc'[Cmd] = "rename" /\ bakTs'[Cmd] = now
                 /\ UNCHANGED <<dir, ino>>)
       /\ \A t \in Threads :
            RenameSucceeds(t) =>
               /\ dir'[Live] = 0
               /\ dir'[Bak(bakTs[t])] = dir[Live]
               /\ ino'[dir[Live]] = ino[dir[Live]]
               /\ \A n \in Names \ {Live, Bak(bakTs[t])} :
                     dir'[n] = dir[n]]_vars

\* C21 witness: a CheckAndRotate has just renamed a live file of MaxSize
\* bytes or more; the live path is gone and the stamped backup is there
C21_Witness ==
    \E w \in Writers :
        /\ rpc[w] = "compress" /\ dir[Live] = 0
        /\ dir[Bak(bakTs[w])] # 0
        /\ Len(ino[dir[Bak(bakTs[w])]].data) >= MaxSize
        /\ ~ino[dir[Bak(bakTs[w])]].gz

\* a step in which thread t's call returns nil
ReturnsNil(t) == rpc[t] \in {"stat", "prune"} /\ rpc'[t] = Ret(t)

Payload(n) ==
    IF ino[dir[n]].gz THEN Gunzip(ino[dir[n]].data).data ELSE ino[dir[n]].data

\* the bytes writeToLogFile has appended so far
TotalWritten == nwrites * EntryLen

\* C23: when the writes of writeToLogFile to an initially absent log add
\* up to at least MaxSize and less than twice MaxSize bytes, exactly one
\* rotation has occurred: there is one backup, it holds at least MaxSize
\* bytes before compression, and the live log holds only the bytes
\* written after the rotation.
C23_ExactlyOneRotation ==
    (/\ logKind = "debug" /\ Quiet
     /\ MaxSize <= TotalWritten /\ TotalWritten < 2 * MaxSize)
       => \E n \in BackupNames(dir) :
             /\ BackupNames(dir) = {n}
             /\ Len(Payload(n)) >= MaxSize
             /\ dir[Live] # 0
             /\ Len(ino[dir[Live]].data) = TotalWritten - Len(Payload(n))

\* a step in which compressFile of thread t's rotation returns nil, so
\* that the backup is removed, and has left a complete gzip stream at
\* <backup>.gz
CompressSucceeds(t) ==
    /\ rpc[t] = "compress" /\ rpc'[t] = "prune"
    /\ dir[Bak(bakTs[t])] # 0 /\ dir'[Bak(bakTs[t])] = 0
    /\ dir'[Gz(bakTs[t])] # 0
    /\ Gunzip(ino'[dir'[Gz(bakTs[t])]].data).ok

CompressFails(t) ==
    /\ rpc[t] = "compress" /\ rpc'[t] = "prune"
    /\ dir[Bak(bakTs[t])] # 0
    /\ ~(/\ dir'[Gz(bakTs[t])] # 0
         /\ Gunzip(ino'[dir'[Gz(bakTs[t])]].data)
               = [ok |-> TRUE, data |-> ino[dir[Bak(bakTs[t])]].data])

\* C25: when the compression of a freshly rotated backup fails, the
\* uncompressed backup stays, with the complete content; pruning still
\* runs, the rotation returns nil, and at the return the uncompressed
\* backup is still there with that content.
C25_FailedCompressionKeepsBackup ==
    [][\A t \in Threads :
         /\ CompressFails(t) =>
               /\ dir'[Bak(bakTs[t])] = dir[Bak(bakTs[t])]
               /\ ino'[dir[Bak(bakTs[t])]] = ino[dir[Bak(bakTs[t])]]
         /\ (RotationCompletes(t) /\ dir[Bak(bakTs[t])] # 0) =>
               /\ rpc'[t] = Ret(t)
               /\ dir'[Bak(bakTs[t])] = dir[Bak(bakTs[t])]
               /\ ino'[dir[Bak(bakTs[t])]] = ino[dir[Bak(bakTs[t])]]]_vars

\* a step in which the CheckAndRotate of writer w returns an error
RotateFails(w) == rpc[w] \in {"stat", "rename"} /\ rpc'[w] = "warn"

PruneStep(t) == rpc[t] = "prune" /\ rpc'[t] # "prune"

\* the backups whose last modification is MaxAge days old or less
Recent == {n \in BackupNames(dir) :
             ino[dir[n]].mtime >= now - MaxAge * SecondsPerDay}

RelayExitStatus ==
    CASE mainPc = "exited" -> 0
      [] mainPc = "panic" -> 2
      [] OTHER -> -1

\* C27: the proxy exits with status 0 on a clean shutdown (the shell
\* exits, the real input reaches EOF, SIGINT/SIGTERM is taken by the
\* select), and with a non-zero status only when the lock, the
\* pseudo-terminal, raw mode or the session log failed before relaying
\* began: a proxy that got as far as relaying ends with status 0.
C27_CleanShutdownExitsZero ==
    mainPc \in {"exited", "panic"} => RelayExitStatus = 0

\* process p is past createProcessLock, has not released the lock, and the
\* file at the lock path is the one it created
HoldsLock(p) == pc[p] \in Holding /\ lockIno = p

\* the positions of runProxy in the order the code passes them, from the
\* return of createProcessLock to the relay
StartupOrder == <<"locked", "sweep", "ptystart", "rawmode", "logstat",
                  "logopen", "relay">>

\* C28: every proxy run goes through lock acquired, stale-session sweep,
\* shell spawned, relaying, in this order; and no shell is spawned, and
\* the session log is not opened or written, and during the session's
\* lifetime not deleted, except by a process that holds the session's lock
\* at that moment.
C28_OnlyTheLockHolderActs ==
    /\ [][\A p \in Procs :
             /\ \A i \in 1..(Len(StartupOrder) - 1) :
                   (pc[p] = StartupOrder[i] /\ Steps(p) /\ pc'[p] # "exited")
                      => pc'[p] = StartupOrder[i + 1]
             /\ (shell[p] # "running" /\ shell'[p] = "running")
                   => HoldsLock(p)
             /\ (logOpen[p] = 0 /\ logOpen'[p] # 0) => HoldsLock(p)]_vars
    /\ [][(slogIno # 0 /\ slogIno' = 0 /\ \E q \in Procs : pc[q] \in Holding)
            => \E p \in Procs : HoldsLock(p) /\ pc'[p] # pc[p]]_vars
    /\ [](\A p \in Procs : pc[p] = "relay" => HoldsLock(p))

\* the proxy is relaying, no SIGWINCH is on its way, the channel is empty,
\* the handler waits, and its last pty.InheritSize did not fail
Settled ==
    /\ rMainPc = "run" /\ ~sigPending /\ chLen = 0 /\ hPc = "recv" /\ ~hErr

\* a step in which pty.InheritSize of the handler fails
ResizeFails == hPc \in {"get", "set"} /\ hErr' /\ hPc' = "recv" /\ ptySize' = ptySize

\* C30: once the resize notifications have stopped and the handler has
\* drained its channel, the pseudo-terminal has the real terminal's size,
\* whatever the number and timing of the SIGWINCHs and whether or not some
\* were dropped on the full channel; the initial resize is sent on ch by
\* runProxy itself, which is never held up for good by it; and a failed
\* resize leaves the handler in its loop and the main goroutine where it
\* was.
C30_PtySizeFollowsTerminal ==
    /\ [](Settled => ptySize = termSize)
    /\ [][ResizeFails => (hPc' = "recv" /\ rMainPc' = rMainPc)]_vars
    /\ [][(rMainPc \in {"initial", "parked"} /\ rMainPc' = "run")
            => (chLen' > 0 \/ hPc' = "get")]_vars
    /\ (rMainPc \in {"initial", "parked"}) ~> (rMainPc = "run")
    /\ (rMainPc = "run" /\ chLen > 0) ~> (chLen = 0)

\* C30 witness: a SIGWINCH was dropped on the full channel, the handler
\* has since drained it, and the pseudo-terminal has the terminal's size
C30_Witness == Settled /\ dropped /\ ptySize = termSize

\* C12: once the proxy has put the real terminal into raw mode, every way
\* it then ends by its own doing (relay completion, SIGINT/SIGTERM taken by
\* the select, a fatal session-log delete or open error) leaves the
\* terminal's prior mode restored and the log file handle closed.
C12_TerminalRestoredOnExit ==
    \A p \in Procs : pc[p] = "exited" => (~termRaw[p] /\ logOpen[p] = 0)

\* the select of runProxy takes the value the output relay sends on done
ReceivedFromRelay == mainPc = "select" /\ outPc = "parked" /\ outPc' = "end"

\* C13: once the shell has exited, or the real input has reached EOF, or a
\* SIGINT/SIGTERM has been taken, runProxy eventually returns; and it does
\* not leave its select before one of these has happened (the output relay
\* ends only because the pty read failed after the shell's exit).
C13_ReturnsExactlyAfterEnd ==
    /\ (~shellUp \/ doneClosed \/ mainPc = "d_closelog") ~> (mainPc = "exited")
    /\ [][ReceivedFromRelay => ~shellUp]_vars

\* a step in which runProxy of p returns after its deferred calls
Returns(p) == pc[p] = "d_rmlock" /\ pc'[p] = "exited"

\* C14: at session start an existing log of the session id is deleted
\* before the new log is opened, so the proxy's log handle always refers to
\* a file this session created empty, which the open left at the log path;
\* and when the proxy has returned the session log is still at its path.
C14_FreshLogThatPersists ==
    /\ [](\A p \in Procs : logOpen[p] # 0 => logOpen[p] = p)
    /\ [][\A p \in Procs :
             /\ (pc[p] = "logopen" /\ pc'[p] = "relay") => slogIno' = p
             /\ Returns(p) => slogIno' # 0]_vars

\* a step in which runProxy of p passes its first statement
Enters(p) == pc[p] = "init" /\ Steps(p)

\* C15: a runProxy that finds SMART_SUGGESTION_PROXY_ACTIVE non-empty
\* returns at once, touching no lock, no session log and no shell; and a
\* proxy whose shell runs has set the marker (to its pid) before, so a
\* proxy started from inside that shell finds it set.
C15_NestingGuard ==
    /\ [](\A p \in Procs : shell[p] = "running" => envMarker[p] = Pid(p))
    /\ [][\A p \in Procs :
             (Enters(p) /\ envMarker'[p] # 0) =>
                /\ pc'[p] = "exited" /\ exitCode'[p] = 0
                /\ UNCHANGED <<lockFs, sessionLog, shell, logOpen, termRaw>>]_vars

\* C15 witness: p, started from inside the shell that proxy q spawned, has
\* returned while q goes on relaying
C15_Witness ==
    \E p, q \in Procs :
        /\ p # q /\ pc[q] = "relay" /\ shell[q] = "running"
        /\ envMarker[p] = Pid(q) /\ pc[p] = "exited" /\ exitCode[p] = 0

\* the device path of the terminal a caller is in: $TTY, else what the tty
\* command prints
TerminalDevice(call) ==
    IF call.envTTY # <<>> THEN call.envTTY
    ELSE IF ~call.tty.err THEN TrimSpace(call.tty.out)
    ELSE <<>>

\* basename of a device path with its dots and colons replaced by underscores
SafeBasename(device) == ReplaceAll(ReplaceAll(LastPart(device), ".", "_"), ":", "_")

\* which of the three sources the id of a call is to come from
IdSource(call) ==
    IF call.override # <<>> THEN "override"
    ELSE IF SafeBasename(TerminalDevice(call)) # <<>> THEN "tty"
    ELSE "pid"

\* the id the priority order gives a call
IdInOrder(call) ==
    CASE IdSource(call) = "override" -> call.override
      [] IdSource(call) = "tty"      -> SafeBasename(TerminalDevice(call))
      [] OTHER                       -> PidID(call.pid)

\* C16: every session id resolved by runProxy or by getCurrentSessionID is
\* the explicit override when one is given, else the terminal's device
\* basename with dots and colons replaced by underscores, else "pid_" and the
\* PID; and for the first two sources a repeated resolution in the same
\* terminal gives the same id.
C16_ResolutionOrder ==
    \A i \in 1..Len(idOut) :
        ~idOut[i].exited =>
            /\ idOut[i].id = IdInOrder(idCall)
            /\ (IdSource(idCall) \in {"override", "tty"} => idOut[i].id = idOut[1].id)

\* the id is made from the PID of the caller
PidBased(id, pid) == HasPrefix(id, PidID(pid)) \/ HasPrefix(id, Itoa(pid) \o <<"_">>)

\* C17: whatever the override, $TTY and the tty command's result are, a
\* resolved session id is not empty and holds no path separator, an id taken
\* from the terminal device name holds no dot and no colon, and when the
\* terminal device cannot be found the PID-based id is used.
C17_IdWellFormed ==
    \A i \in 1..Len(idOut) :
        ~idOut[i].exited =>
            /\ idOut[i].id # <<>>
            /\ "/" \notin Range(idOut[i].id)
            /\ (idCall.override = <<>> => {".", ":"} \cap Range(idOut[i].id) = {})
            /\ (idCall.override = <<>> /\ TerminalDevice(idCall) = <<>>
                   => PidBased(idOut[i].id, idCall.pid))

\* C18: the log path and the lock path of a session are the base path with
\* the session id put between the stem and the extension of its file name
\* (p.log and id a give p.a.log), and two different session ids always get
\* two different log paths and two different lock paths.
C18_DistinctSessionPaths ==
    /\ \A i \in 1..Len(pathOut) :
          pathIn.ids[i] # <<>> =>
             /\ LastPart(pathOut[i].log) = SessionFileName(pathIn.base, pathIn.ids[i])
             /\ LastPart(pathOut[i].lock) = SessionFileName(LockBase, pathIn.ids[i])
    /\ (Len(pathOut) = 2 /\ pathIn.ids[1] # pathIn.ids[2]) =>
          /\ pathOut[1].log # pathOut[2].log
          /\ pathOut[1].lock # pathOut[2].lock

\* the name is <stem>.<id><ext> of the base path for some session id, which
\* is never empty
HasSessionForm(name, baseLogPath) ==
    /\ Len(name) > Len(Stem(baseLogPath)) + 1 + Len(Ext(Base(baseLogPath)))
    /\ HasPrefix(name, Stem(baseLogPath) \o <<".">>)
    /\ HasSuffix(name, Ext(Base(baseLogPath)))

\* entries gone from the directory since the sweep began
Removed == {n \in SweepNames : sdir0[n] # Absent /\ sdir[n] = Absent}

\* a file last modified more than maxAge before the sweep
OlderThan(entry, maxAge) == entry.kind = "file" /\ MaxTime - entry.mtime > maxAge

\* C19: a sweep that returns without error has deleted exactly the files of
\* the log directory named <stem>.<sessionID><ext> and modified more than
\* maxAge ago: never the base file, never a newer session log, never a file
\* that is no session log of the base; every other entry is as it was.
C19_SweepsExactlyOldSessionLogs ==
    sweepResult = "ok" =>
        /\ \A n \in Removed :
              /\ n # Base(sweepBase)
              /\ HasSessionForm(n, sweepBase)
              /\ OlderThan(sdir0[n], SweepMaxAge)
        /\ ~sweepErrs =>
              \A n \in SweepNames :
                  (HasSessionForm(n, sweepBase) /\ OlderThan(sdir0[n], SweepMaxAge))
                      => n \in Removed
        /\ \A n \in SweepNames \ Removed : sdir[n] = sdir0[n]

\* C20: when the sweep of old session logs fails, runProxy neither exits nor
\* touches the lock: it goes on to pty.Start with the lock file as it was,
\* and the shell is spawned unless pty.Start itself fails.
C20_SweepFailureAbsorbed ==
    /\ [](\A p \in Procs : sweepFailed[p] =>
              (pc[p] \in {"ptystart", "rawmode"} /\ exitCode[p] = -1))
    /\ [][\A p \in Procs :
             /\ (pc[p] = "sweep" /\ Steps(p)) =>
                   (pc'[p] = "ptystart" /\ exitCode'[p] = -1 /\ UNCHANGED lockFs)
             /\ (pc[p] = "ptystart" /\ sweepFailed[p] /\ Steps(p)) =>
                   \/ shell'[p] = "running" /\ exitCode'[p] = -1
                   \/ pc'[p] = "exited" /\ exitCode'[p] = 1]_vars

\* the sweep has failed, and the proxy holds its lock and has its shell
C20_Witness ==
    \E p \in Procs :
        /\ sweepFailed[p]
        /\ shell[p] = "running"
        /\ lockIno = p /\ flockBy[p] = p
        /\ exitCode[p] = -1

\* C31: readLatestProxyContent returns the last min(n, maxLines) lines of an
\* n-line log, in their order, joined by line feeds; for a file that does
\* not exist it returns an error, and buildContextInfo returns without
\* error all the same.
C31_LastLinesOfLog ==
    /\ (tailOut.called /\ logFile.exists) =>
          /\ ~tailOut.err
          /\ tailOut.text =
                JoinNewline(LastLines(Lines(logFile.data),
                                      Min(Len(Lines(logFile.data)), maxLines)))
    /\ (tailOut.called /\ ~logFile.exists) => tailOut.err
    /\ ctxOut.called => ~ctxOut.err

\* C32: ParseSizeString, on the trimmed and upper-cased text, returns an
\* error when the part before the unit is not a decimal integer, and for
\* every text it accepts the number times 1024 for KB, 1024^2 for MB, 1024^3
\* for GB and 1 for B or no unit, as the exact product.
C32_ExactProduct ==
    sizeOut.called =>
       LET u == ToUpper(TrimSpace(sizeIn))
           numStr == TrimSuffix(u, Suffix(u))
       IN  /\ ~IsDecimal(numStr) => sizeOut.err
           /\ ~sizeOut.err =>
                 /\ IsDecimal(numStr)
                 /\ sizeOut.n = MulExact(DecimalValue(numStr), Multiplier(Suffix(u)))

\* C33: no step of a process inside createProcessLock removes or replaces
\* the lock file while the process that created that file is alive, the
\* moment when the file is still empty included.
C33_LiveLockUntouched ==
    [][\A p \in Procs :
          (/\ pc[p] \in InAcquire
           /\ Steps(p)
           /\ lockIno \in Procs \ {p}
           /\ Alive(lockIno))
             => lockIno' = lockIno]_vars

\* C34: in the shutdown of the relay no goroutine sends on done once it is
\* closed, and done is not closed under a sender waiting on it: the proxy
\* never ends in the panic of a send on a closed channel.
C34_NoSendOnClosedDone == mainPc # "panic"

\* C35: with MaxBackups >= 1 and MaxAge >= 1, the backup a rotation has made
\* is still there when that rotation's pruning is over: the uncompressed
\* backup if compression left it, else the compressed one.
C35_OwnBackupSurvivesPruning ==
    [][\A t \in Threads :
          PruneStep(t) =>
             /\ dir[Bak(bakTs[t])] # 0 => dir'[Bak(bakTs[t])] # 0
             /\ (dir[Bak(bakTs[t])] = 0 /\ dir[Gz(bakTs[t])] # 0)
                   => dir'[Gz(bakTs[t])] # 0]_vars

\* C36: a rotation leaves every backup that exists when it starts as it is
\* until its pruning: its rename and its compression neither replace nor
\* truncate nor rewrite a backup of an earlier rotation, a rotation of the
\* same second included.
C36_EarlierBackupsKept ==
    [][\A t \in Threads : \A n \in BackupNames(dir) :
          \/ /\ rpc[t] = "rename" /\ rpc'[t] # "rename"
          \/ /\ rpc[t] = "compress" /\ rpc'[t] # "compress"
             /\ n # Bak(bakTs[t])
          => /\ dir'[n] = dir[n]
             /\ ino'[dir[n]] = ino[dir[n]]]_vars

\* C37: while a proxy is alive, holds the lock of its session and has the
\* session log open, no sweep run by the proxy of another session removes
\* that log, however old its last write is.
C37_ForeignSweepSparesLiveLog ==
    [][(/\ \E q \in Procs : HoldsLock(q) /\ logOpen[q] # 0 /\ logOpen[q] = slogIno
        /\ pc' = pc)
          => slogIno' = slogIno]_vars

\* C38: a runProxy that returns after relaying runs its shutdown in this
\* order: the session log handle is closed, the terminal mode restored, the
\* resize notifications stopped, the pseudo-terminal closed, the lock
\* released and its file removed; when the lock file is removed the proxy
\* has no session log open, has restored the terminal and has closed the
\* pseudo-terminal.
C38_ShutdownOrder ==
    [][\A p \in Procs :
          /\ (pc[p] = "relay" /\ Steps(p)) => pc'[p] = "d_closelog"
          /\ (pc[p] = "d_closelog" /\ Steps(p))
                => (pc'[p] = "d_restore" /\ logOpen'[p] = 0 /\ lockFs' = lockFs)
          /\ (pc[p] = "d_restore" /\ Steps(p))
                => (pc'[p] = "d_sigstop" /\ ~termRaw'[p] /\ lockFs' = lockFs)
          /\ (pc[p] = "d_sigstop" /\ Steps(p))
                => (pc'[p] = "d_closepty" /\ lockFs' = lockFs)
          /\ (pc[p] = "d_closepty" /\ Steps(p))
                => (pc'[p] = "d_unlock" /\ shell'[p] # "running" /\ lockFs' = lockFs)
          /\ (pc[p] = "d_unlock" /\ Steps(p))
                => (pc'[p] = "d_rmlock" /\ flockBy'[p] # p /\ lockIno' = lockIno)
          /\ (pc[p] = "d_rmlock" /\ Steps(p))
                => /\ pc'[p] = "exited" /\ exitCode'[p] = 0 /\ lockIno' = 0
                   /\ logOpen[p] = 0 /\ ~termRaw[p] /\ shell[p] # "running"]_vars

\* C38 witness: a proxy that spawned its shell and relayed has returned with
\* status 0, its log closed, the terminal restored, the lock file gone
C38_Witness ==
    \E p \in Procs :
        /\ pc[p] = "exited" /\ exitCode[p] = 0
        /\ shell[p] = "gone"
        /\ logOpen[p] = 0 /\ ~termRaw[p]
        /\ lockIno = 0
        /\ slogIno = p

\* C39: a context-gathering call made inside the shell a proxy has spawned
\* resolves the session id the proxy records under and, with the same base
\* log path, the session log path the proxy writes to.
C39_ShellSeesProxySession ==
    Len(idOut) = 2 =>
       /\ idOut[2].id = idOut[1].id
       /\ pathOut[2].log = pathOut[1].log

\* C39 witness: the proxy generated its id, and the call inside its shell
\* came to the same id and the same session log, which is not the base log
C39_Witness ==
    /\ Len(idOut) = 2
    /\ idCall.override = <<>>
    /\ idOut[2].id = idOut[1].id
    /\ pathOut[2].log = pathOut[1].log
    /\ pathOut[2].log # pathIn.base

\* C40: the pruning pass of a rotation of P changes only files that are
\* backups of P: the log P itself, the log, the backups and the session
\* logs of another base in the directory, and every other file, are after
\* the pass what they were before it.
C40_PruneTouchesOnlyOwnBackups ==
    sweepResult = "ok" =>
       \A n \in DOMAIN sdir :
          sdir[n] # sdir0[n] => n \in BackupsOf(sweepBase)

====
